---- MODULE Spec2Model ----
(***************************************************************************)
(* Model of simple_zpl2.formatter.Formatter: a builder that accumulates    *)
(* ZPL II command fragments in the list self.zpl and renders them.         *)
(*                                                                         *)
(* Text is modelled as a sequence of Unicode code points, so that str(),   *)
(* ''.join() and the UTF-8 encoding are computed and not assumed.          *)
(* A Python value is a record [t, i, s, l]: t is its type, i the integer   *)
(* (for a float: the value in hundredths), s the characters of a str, l   *)
(* the items of a list or tuple.                                           *)
(***************************************************************************)
EXTENDS Integers, Sequences, FiniteSets, TLC

VARIABLES zpl, calls, fails, last, out

vars == <<zpl, calls, fails, last, out>>

\* Number of command calls made on one Formatter in Spec.
MaxCmds == 2

\* Number of command calls made on one Formatter in SpecArgs.
MaxArgCmds == 1

\* The number of field-data calls in a behaviour of SpecData.
MaxDataCmds == 1

MaxBarCmds == 1

---------------------------------------------------------------------------
(* Python values *)

None == [t |-> "none", i |-> 0, s |-> <<>>, l |-> <<>>]

PyInt(n) == [t |-> "int", i |-> n, s |-> <<>>, l |-> <<>>]

PyFloat(hundredths) == [t |-> "float", i |-> hundredths, s |-> <<>>, l |-> <<>>]

PyStr(cs) == [t |-> "str", i |-> 0, s |-> cs, l |-> <<>>]

PyList(items) == [t |-> "list", i |-> 0, s |-> <<>>, l |-> items]

\* Python truthiness, as "if value:" tests it.
Truthy(v) ==
    CASE v.t = "none" -> FALSE
      [] v.t = "int" -> v.i # 0
      [] v.t = "float" -> v.i # 0
      [] v.t = "str" -> v.s # <<>>
      [] OTHER -> v.l # <<>>

RECURSIVE DecNat(_)
\* The decimal digits of a natural number.
DecNat(n) ==
    IF n < 10 THEN <<48 + n>> ELSE DecNat(n \div 10) \o <<48 + (n % 10)>>

\* str(n) for an int n.
Dec(n) == IF n < 0 THEN <<45>> \o DecNat(-n) ELSE DecNat(n)

\* str(value) for a float held in hundredths: the shortest repr, 'd.d' or
\* 'd.dd'.
FloatRepr(h) ==
    LET a == IF h < 0 THEN -h ELSE h
        frac == IF a % 10 = 0 THEN DecNat((a % 100) \div 10)
                ELSE DecNat((a % 100) \div 10) \o DecNat(a % 10)
    IN (IF h < 0 THEN <<45>> ELSE <<>>) \o DecNat(a \div 100) \o <<46>> \o frac

\* round(value, 1): an int is returned as it is, a float goes to the nearest
\* tenth (on a tie the binary value of the float decides; ties are not drawn).
round1(v) ==
    IF v.t # "float" THEN v
    ELSE LET a == IF v.i < 0 THEN -v.i ELSE v.i
             t == 10 * ((a + 5) \div 10)
         IN PyFloat(IF v.i < 0 THEN -t ELSE t)

RECURSIVE Join(_, _)
\* sep.join(items) for a sequence of strings.
Join(sep, items) ==
    IF items = <<>> THEN <<>>
    ELSE IF Len(items) = 1 THEN items[1]
    ELSE items[1] \o sep \o Join(sep, Tail(items))

\* str(value)
str(v) ==
    CASE v.t = "none" -> <<78, 111, 110, 101>>
      [] v.t = "int" -> Dec(v.i)
      [] v.t = "float" -> FloatRepr(v.i)
      [] v.t = "str" -> v.s
      [] OTHER -> <<91>> \o Join(<<44, 32>>, [k \in 1..Len(v.l) |-> <<39>> \o v.l[k] \o <<39>>]) \o <<93>>

IsDigitChar(c) == (c >= 48 /\ c <= 57) \/ c \in {178, 179, 185}

IsAlnumChar(c) ==
    \/ (c >= 48 /\ c <= 57)
    \/ (c >= 65 /\ c <= 90)
    \/ (c >= 97 /\ c <= 122)
    \/ c \in {170, 178, 179, 181, 185, 186, 188, 189, 190}
    \/ (c >= 192 /\ c <= 214)
    \/ (c >= 216 /\ c <= 246)
    \/ (c >= 248 /\ c <= 255)

\* str.isdigit(): non-empty and every character a digit.
isdigit(cs) == cs # <<>> /\ \A k \in 1..Len(cs) : IsDigitChar(cs[k])

\* str.isalnum(): non-empty and every character a letter or a digit.
isalnum(cs) == cs # <<>> /\ \A k \in 1..Len(cs) : IsAlnumChar(cs[k])

RECURSIVE ParseNat(_)
ParseNat(cs) ==
    IF cs = <<>> THEN 0 ELSE 10 * ParseNat(SubSeq(cs, 1, Len(cs) - 1)) + (cs[Len(cs)] - 48)

\* int(value): [exc, v]. A float truncates toward zero; a str must be an
\* optionally signed run of ASCII digits; None is a TypeError.
int(v) ==
    CASE v.t = "int" -> [exc |-> "", v |-> v.i]
      [] v.t = "float" ->
            [exc |-> "", v |-> IF v.i < 0 THEN -((-v.i) \div 100) ELSE v.i \div 100]
      [] v.t = "str" ->
            LET neg == v.s # <<>> /\ v.s[1] = 45
                body == IF v.s # <<>> /\ v.s[1] \in {43, 45} THEN Tail(v.s) ELSE v.s
            IN IF body # <<>> /\ \A k \in 1..Len(body) : body[k] >= 48 /\ body[k] <= 57
               THEN [exc |-> "", v |-> IF neg THEN -ParseNat(body) ELSE ParseNat(body)]
               ELSE [exc |-> "ValueError", v |-> 0]
      [] OTHER -> [exc |-> "TypeError", v |-> 0]

---------------------------------------------------------------------------
(* Fragments the builder appends *)

START == <<94, 88, 65>>     \* '^XA'

END == <<94, 88, 90>>       \* '^XZ'

NL == <<10>>                \* '\n'

COMMA == <<44>>             \* ','

\* The error-correction levels of the QR code
QR_ERROR_CORRECTION_ULTRA_HIGH == PyStr(<<72>>)     \* 'H'

QR_ERROR_CORRECTION_HIGH == PyStr(<<81>>)           \* 'Q'

QR_ERROR_CORRECTION_STANDARD == PyStr(<<77>>)       \* 'M'

QR_ERROR_CORRECTION_LOW == PyStr(<<72>>)            \* 'H'

---------------------------------------------------------------------------
(* A method in progress: the stream so far, and whether the method is      *)
(* still running, has returned, or has raised (exc, and the field the      *)
(* message names).                                                         *)

Begin(z) == [zpl |-> z, st |-> "run", exc |-> "", field |-> ""]

\* self.zpl.append(frag)
append(r, frag) ==
    IF r.st # "run" THEN r ELSE [r EXCEPT !.zpl = Append(@, frag)]

\* raise taking back the fragment appended last.
raise_pops(r, exc, field) ==
    IF r.st # "run" THEN r
    ELSE [r EXCEPT !.st = "raise", !.exc = exc, !.field = field,
                   !.zpl = SubSeq(@, 1, Len(@) - 1)]

\* raise exc(...)
\* raise after a newline was appended, as if the decorator closed the
\* command that failed.
raise_newline(r, exc, field) ==
    IF r.st # "run" THEN r
    ELSE [r EXCEPT !.st = "raise", !.exc = exc, !.field = field, !.zpl = Append(@, NL)]

raise(r, exc, field) ==
    IF r.st # "run" THEN r ELSE [r EXCEPT !.st = "raise", !.exc = exc, !.field = field]

\* if value is None: return
return_if_none(r, value) ==
    IF r.st = "run" /\ value = None THEN [r EXCEPT !.st = "return"] ELSE r

_add_comma(r, comma) ==
    IF comma THEN append(r, COMMA) ELSE r

_newline(r) == append(r, NL)

_add_int(r, value) ==
    LET n == int(value)
    IN IF n.exc # "" THEN raise(r, n.exc, "") ELSE append(r, Dec(n.v))

\* Ordering comparisons of a str or None against an int are a TypeError.
Orderable(value) == value.t \in {"int", "float"}

\* a < b for ints and floats (a float is held in hundredths)
Lt(a, b) ==
    CASE a.t = "int" /\ b.t = "int" -> a.i < b.i
      [] a.t = "float" /\ b.t = "int" -> (a.i \div 100) < b.i
      [] a.t = "int" /\ b.t = "float" -> a.i < -((-b.i) \div 100)
      [] OTHER -> a.i < b.i

\* min(a, b) and max(a, b): the first argument unless the second is
\* strictly smaller (larger).
min(a, b) == IF Lt(b, a) THEN b ELSE a

max(a, b) == IF Lt(a, b) THEN b ELSE a

\* The range test with exclusive bounds.
Between_exclusive(min_value, value, max_value) ==
    Lt(PyInt(min_value), value) /\ Lt(value, PyInt(max_value))

\* min_value <= value <= max_value
Between(min_value, value, max_value) ==
    ~Lt(value, PyInt(min_value)) /\ ~Lt(PyInt(max_value), value)

\* _add_int_value_in_range with the separator appended before the check.
_add_int_value_in_range_comma_first(r, value, field, min_value, max_value, comma, reset_back) ==
    IF r.st # "run" THEN r
    ELSE IF ~Orderable(value) THEN raise(r, "TypeError", "")
    ELSE IF reset_back
    THEN _add_int(_add_comma(r, comma), max(PyInt(min_value), min(PyInt(max_value), value)))
    ELSE IF ~Between(min_value, value, max_value)
    THEN raise(_add_comma(r, comma), "ValueError", field)
    ELSE _add_int(_add_comma(r, comma), value)

\* _add_int_value_in_range that pulls a value back to max_value only.
_add_int_value_in_range_max_only(r, value, field, min_value, max_value, comma, reset_back) ==
    IF r.st # "run" THEN r
    ELSE IF ~Orderable(value) THEN raise(r, "TypeError", "")
    ELSE IF reset_back
    THEN _add_int(_add_comma(r, comma), min(PyInt(max_value), value))
    ELSE IF ~Between(min_value, value, max_value)
    THEN raise(r, "ValueError", field)
    ELSE _add_int(_add_comma(r, comma), value)

_add_int_value_in_range(r, value, field, min_value, max_value, comma, reset_back) ==
    IF r.st # "run" THEN r
    ELSE IF ~Orderable(value) THEN raise(r, "TypeError", "")
    ELSE IF reset_back
    THEN LET v1 == min(PyInt(max_value), value)
             v2 == max(PyInt(min_value), v1)
         IN _add_int(_add_comma(r, comma), v2)
    ELSE IF ~Between(min_value, value, max_value)
    THEN raise(r, "ValueError", field)
    ELSE _add_int(_add_comma(r, comma), value)

\* _add_value_in_list comparing the values themselves, not their string
\* forms.
_add_value_in_list_by_value(r, value, field, valid_values, comma) ==
    IF r.st # "run" THEN r
    ELSE IF ~(\E k \in 1..Len(valid_values) : valid_values[k] = value)
    THEN raise(r, "ValueError", field)
    ELSE append(_add_comma(r, comma), str(value))

_add_value_in_list(r, value, field, valid_values, comma) ==
    IF r.st # "run" THEN r
    ELSE LET valid == [k \in 1..Len(valid_values) |-> str(valid_values[k])]
         IN IF ~(\E k \in 1..Len(valid) : valid[k] = str(value))
            THEN raise(r, "ValueError", field)
            ELSE append(_add_comma(r, comma), str(value))

_add_orientation(r, orientation, comma) ==
    _add_value_in_list(r, orientation, "orientation",
                       <<PyStr(<<78>>), PyStr(<<82>>), PyStr(<<73>>), PyStr(<<66>>)>>, comma)

_add_yes_no(r, value, field, comma) ==
    _add_value_in_list(r, value, field, <<PyStr(<<89>>), PyStr(<<78>>)>>, comma)

_add_line_color(r, color, comma) ==
    _add_value_in_list(r, color, "color", <<PyStr(<<66>>), PyStr(<<87>>)>>, comma)

_add_decimal_value_in_range(r, value, field, min_value, max_value, comma) ==
    IF r.st # "run" THEN r
    ELSE IF ~Orderable(value) THEN raise(r, "TypeError", "")
    ELSE IF ~Between(min_value, value, max_value)
    THEN raise(r, "ValueError", field)
    ELSE append(_add_comma(r, comma), str(round1(value)))

\* The decorator appending the newline after a raise as well.
_newline_after_always(r) ==
    IF r.st = "raise" THEN [r EXCEPT !.zpl = Append(@, NL)]
    ELSE [zpl |-> Append(r.zpl, NL), st |-> "return", exc |-> "", field |-> ""]

\* The decorator: func runs, and when it returns (not when it raises) a
\* newline is appended.
_newline_after(r) ==
    IF r.st = "raise" THEN r ELSE [zpl |-> Append(r.zpl, NL), st |-> "return", exc |-> "", field |-> ""]

---------------------------------------------------------------------------
(* Commands *)

\* The stream holds font_name as it was passed; the rendering takes its
\* string form.
add_font(z, font_name, orientation, character_height, width) ==
    LET s0 == append(append(Begin(z), <<94, 65>>), str(font_name))     \* '^A'
        s1 == return_if_none(s0, orientation)
        s2 == _add_orientation(s1, orientation, TRUE)
        s3 == return_if_none(s2, character_height)
        s4 == _add_int_value_in_range(s3, character_height, "character_height", 10, 32000, TRUE, FALSE)
        s5 == IF Truthy(width)
              THEN _add_int_value_in_range(s4, width, "width", 10, 32000, TRUE, FALSE)
              ELSE s4
    IN _newline_after(s5)

add_label_home(z, x_pos, y_pos) ==
    LET s0 == append(Begin(z), <<94, 76, 72>>)        \* '^LH'
        s1 == return_if_none(s0, x_pos)
        s2 == _add_int_value_in_range(s1, x_pos, "x_pos", 0, 32000, FALSE, FALSE)
        s3 == return_if_none(s2, y_pos)
        s4 == _add_int_value_in_range(s3, y_pos, "y_pos", 0, 32000, TRUE, FALSE)
    IN _newline_after(s4)

\* add_field_origin with an omitted parameter skipped and the later ones
\* still emitted.
add_field_origin_skip(z, x_pos, y_pos, justification) ==
    LET s0 == append(Begin(z), <<94, 70, 79>>)
        s2 == IF x_pos = None THEN s0
              ELSE _add_int_value_in_range(s0, x_pos, "x_pos", 0, 32000, FALSE, FALSE)
        s4 == IF y_pos = None THEN s2
              ELSE _add_int_value_in_range(s2, y_pos, "y_pos", 0, 32000, TRUE, FALSE)
        s6 == IF justification = None THEN s4
              ELSE _add_value_in_list(s4, justification, "justification",
                                      <<PyInt(0), PyInt(1), PyInt(2)>>, TRUE)
    IN _newline_after(s6)

add_field_origin(z, x_pos, y_pos, justification) ==
    LET s0 == append(Begin(z), <<94, 70, 79>>)        \* '^FO'
        s1 == return_if_none(s0, x_pos)
        s2 == _add_int_value_in_range(s1, x_pos, "x_pos", 0, 32000, FALSE, FALSE)
        s3 == return_if_none(s2, y_pos)
        s4 == _add_int_value_in_range(s3, y_pos, "y_pos", 0, 32000, TRUE, FALSE)
        s5 == return_if_none(s4, justification)
        s6 == _add_value_in_list(s5, justification, "justification",
                                 <<PyInt(0), PyInt(1), PyInt(2)>>, TRUE)
    IN _newline_after(s6)

add_field_block(z, width, max_lines, dots_between_lines, text_justification, hanging_indent) ==
    LET s0 == append(Begin(z), <<94, 70, 66>>)        \* '^FB'
        s1 == return_if_none(s0, width)
        s2 == _add_int(s1, width)
        s3 == return_if_none(s2, max_lines)
        s4 == _add_int_value_in_range(s3, max_lines, "max_lines", 1, 9999, TRUE, FALSE)
        s5 == return_if_none(s4, dots_between_lines)
        s6 == _add_int_value_in_range(s5, dots_between_lines, "dots_between_lines",
                                      -9999, 9999, TRUE, FALSE)
        s7 == return_if_none(s6, text_justification)
        s8 == _add_value_in_list(s7, text_justification, "text_justification",
                                 <<PyStr(<<76>>), PyStr(<<67>>), PyStr(<<82>>), PyStr(<<74>>)>>, TRUE)
        s9 == return_if_none(s8, hanging_indent)
        s10 == _add_int_value_in_range(s9, hanging_indent, "hanging_indent", 0, 9999, TRUE, FALSE)
    IN _newline_after(s10)

add_print_quantity(z, quantity, pause_and_cut_count, replicates_of_serial, override_pause, cut_on_error) ==
    LET s0 == append(Begin(z), <<94, 80, 81>>)        \* '^PQ'
        s1 == return_if_none(s0, quantity)
        s2 == _add_int_value_in_range(s1, quantity, "quantity", 1, 99999999, FALSE, FALSE)
        s3 == return_if_none(s2, pause_and_cut_count)
        s4 == _add_int_value_in_range(s3, pause_and_cut_count, "pause_and_cut_count",
                                      0, 99999999, TRUE, FALSE)
        s5 == return_if_none(s4, replicates_of_serial)
        s6 == _add_int_value_in_range(s5, replicates_of_serial, "replicates_of_serial",
                                      0, 99999999, TRUE, FALSE)
        s7 == return_if_none(s6, override_pause)
        s8 == _add_yes_no(s7, override_pause, "override_pause", TRUE)
        s9 == return_if_none(s8, cut_on_error)
        s10 == _add_yes_no(s9, cut_on_error, "cut_on_error", TRUE)
    IN _newline_after(s10)

RECURSIVE replace_newline(_)
\* data.replace('\n', '\&'): every newline becomes a backslash and '&'.
replace_newline(cs) ==
    IF cs = <<>> THEN <<>>
    ELSE (IF cs[1] = 10 THEN <<92, 38>> ELSE <<cs[1]>>) \o replace_newline(Tail(cs))

\* [exc, v]: only a str has a replace method.
_format_field_data(data, replace_newlines) ==
    IF replace_newlines
    THEN IF data.t = "str" THEN [exc |-> "", v |-> PyStr(replace_newline(data.s))]
         ELSE [exc |-> "AttributeError", v |-> data]
    ELSE [exc |-> "", v |-> data]

add_field_data(z, data_list, replace_newlines) ==
    LET f == _format_field_data(data_list, replace_newlines)
        data == IF data_list.t = "list" THEN Join(<<94, 70, 83>>, f.v.l) ELSE str(f.v)
        s0 == IF f.exc # "" THEN raise(Begin(z), f.exc, "") ELSE Begin(z)
        s1 == append(s0, <<94, 70, 68>> \o data \o <<94, 70, 83>>)    \* '^FD{}^FS'
    IN _newline_after(s1)

\* _verify_legal_characters looking at the first character only.
_verify_legal_characters_first(r, data, characters) ==
    IF r.st # "run" THEN r
    ELSE IF data.t # "str" THEN raise(r, "TypeError", "")
    ELSE IF data.s # <<>> /\ data.s[1] \notin {characters[k] : k \in 1..Len(characters)}
    THEN raise(r, "ValueError", "")
    ELSE r

\* Every character of data is one of characters; iterating over a value
\* that is not a str is a TypeError.
_verify_legal_characters(r, data, characters) ==
    IF r.st # "run" THEN r
    ELSE IF data.t # "str" THEN raise(r, "TypeError", "")
    ELSE LET valid_chars == {characters[k] : k \in 1..Len(characters)}
         IN IF ~(\A k \in 1..Len(data.s) : data.s[k] \in valid_chars)
            THEN raise(r, "ValueError", "")
            ELSE r

\* data.isdigit(); only a str has the method.
_verify_data_numeric(r, data) ==
    IF r.st # "run" THEN r
    ELSE IF data.t # "str" THEN raise(r, "AttributeError", "")
    ELSE IF ~isdigit(data.s) THEN raise(r, "ValueError", "")
    ELSE r

\* The call self.add_field_data(data) at the end of a method in progress.
call_add_field_data(r, data) ==
    IF r.st # "run" THEN r ELSE add_field_data(r.zpl, data, FALSE)

\* '01234567890ABCDEFGHIJKLMNOPQRSTUVWXYZ-.$/+% '
normal_set_code_39 ==
    <<48, 49, 50, 51, 52, 53, 54, 55, 56, 57, 48, 65, 66, 67, 68, 69,
      70, 71, 72, 73, 74, 75, 76, 77, 78, 79, 80, 81, 82, 83, 84, 85,
      86, 87, 88, 89, 90, 45, 46, 36, 47, 43, 37, 32>>

\* '01234567890ABCDEFGHIJKLMNOPQRSTUVWXYZ-.$/+%&,() '
normal_set_code_93 ==
    <<48, 49, 50, 51, 52, 53, 54, 55, 56, 57, 48, 65, 66, 67, 68, 69,
      70, 71, 72, 73, 74, 75, 76, 77, 78, 79, 80, 81, 82, 83, 84, 85,
      86, 87, 88, 89, 90, 45, 46, 36, 47, 43, 37, 38, 44, 40, 41, 32>>

\* add_field_data_code_39 that falls back to the normal set when the
\* extended set is asked for.
add_field_data_code_39_degrades(z, data, extended_ascii) ==
    call_add_field_data(_verify_legal_characters(Begin(z), data, normal_set_code_39), data)

add_field_data_code_39(z, data, extended_ascii) ==
    IF extended_ascii THEN raise(Begin(z), "NotImplementedError", "")
    ELSE call_add_field_data(_verify_legal_characters(Begin(z), data, normal_set_code_39), data)

add_field_data_code_93(z, data, extended_ascii) ==
    IF extended_ascii THEN raise(Begin(z), "NotImplementedError", "")
    ELSE call_add_field_data(_verify_legal_characters(Begin(z), data, normal_set_code_93), data)

add_field_data_logmars(z, data) == add_field_data_code_39(z, data, FALSE)

\* zfill that pads on the right.
zfill_right(cs, width) ==
    IF Len(cs) >= width THEN cs ELSE cs \o [k \in 1..(width - Len(cs)) |-> 48]

\* cs.zfill(width): zeros on the left, after a leading sign, up to width.
zfill(cs, width) ==
    IF Len(cs) >= width THEN cs
    ELSE LET zeros == [k \in 1..(width - Len(cs)) |-> 48]
         IN IF cs # <<>> /\ cs[1] \in {43, 45} THEN <<cs[1]>> \o zeros \o Tail(cs)
            ELSE zeros \o cs

\* cs[:n]
first(cs, n) == SubSeq(cs, 1, IF Len(cs) < n THEN Len(cs) ELSE n)

add_field_data_ean_13(z, data) ==
    LET d0 == PyStr(str(data))
        s1 == _verify_data_numeric(Begin(z), d0)
        d1 == IF Len(d0.s) > 12 THEN first(d0.s, 12) ELSE d0.s
    IN call_add_field_data(s1, PyStr(zfill(d1, 12)))

add_field_data_upc_a(z, data) ==
    LET s1 == _verify_data_numeric(Begin(z), data)
        d1 == IF Len(data.s) < 11 THEN zfill(data.s, 11) ELSE data.s
    IN call_add_field_data(s1, PyStr(first(d1, 11)))

\* add_field_data_msi with 14 as the maximum in every mode.
add_field_data_msi_14(z, data, check_digit) ==
    LET s1 == IF Len(str(data)) > 14 THEN raise(Begin(z), "ValueError", "") ELSE Begin(z)
    IN call_add_field_data(_verify_data_numeric(s1, data), data)

add_field_data_msi(z, data, check_digit) ==
    LET max_len == IF check_digit \in {PyStr(<<66>>), PyStr(<<67>>), PyStr(<<68>>)} THEN 13 ELSE 14
        s1 == IF Len(str(data)) > max_len THEN raise(Begin(z), "ValueError", "") ELSE Begin(z)
    IN call_add_field_data(_verify_data_numeric(s1, data), data)

add_barcode_code_49(z, orientation, height_multiplier, print_text, text_above, starting_mode) ==
    LET Y == PyStr(<<89>>)
        N == PyStr(<<78>>)
        s0 == append(Begin(z), <<94, 66, 52>>)        \* '^B4'
        s1 == return_if_none(s0, orientation)
        s2 == _add_orientation(s1, orientation, FALSE)
        s3 == return_if_none(s2, height_multiplier)
        s4 == _add_int(s3, height_multiplier)
        s5 == return_if_none(s4, print_text)
        s6 == IF print_text \notin {Y, N} THEN raise(s5, "ValueError", "print_text") ELSE s5
        s7 == IF text_above \notin {None, Y, N} THEN raise(s6, "ValueError", "text_above") ELSE s6
        interpretation_line ==
            IF print_text = Y THEN (IF text_above = Y THEN <<65>> ELSE <<66>>) ELSE <<78>>
        s8 == append(_add_comma(s7, TRUE), interpretation_line)
        s9 == return_if_none(s8, starting_mode)
        s10 == _add_value_in_list(s9, starting_mode, "starting_mode",
                                  <<PyInt(0), PyInt(1), PyInt(2), PyInt(3), PyInt(4), PyInt(5),
                                    PyStr(<<65>>)>>, TRUE)
    IN _newline_after(s10)

add_barcode_pdf417(z, orientation, height, security_level, data_column_count, row_count, truncate) ==
    LET s0 == append(Begin(z), <<94, 66, 55>>)        \* '^B7'
        s1 == return_if_none(s0, orientation)
        s2 == _add_orientation(s1, orientation, FALSE)
        s3 == return_if_none(s2, height)
        s4 == _add_int(s3, height)
        s5 == return_if_none(s4, security_level)
        s6 == _add_int_value_in_range(s5, security_level, "security_level", 0, 8, TRUE, FALSE)
        s7 == return_if_none(s6, data_column_count)
        s8 == _add_int_value_in_range(s7, data_column_count, "data_column_count", 1, 30, TRUE, FALSE)
        s9 == return_if_none(s8, row_count)
        s10 == _add_int_value_in_range(s9, row_count, "row_count", 3, 90, TRUE, FALSE)
        s11 == return_if_none(s10, truncate)
        s12 == _add_yes_no(s11, truncate, "truncate", TRUE)
    IN _newline_after(s12)

add_barcode_ups_maxicode(z, mode, symbol_number, symbol_count) ==
    LET s0 == append(Begin(z), <<94, 66, 68>>)        \* '^BD'
        s1 == return_if_none(s0, mode)
        s2 == _add_int_value_in_range(s1, mode, "mode", 2, 6, FALSE, FALSE)
        s3 == return_if_none(s2, symbol_number)
        s4 == _add_int_value_in_range(s3, symbol_number, "symbol_number", 1, 8, TRUE, FALSE)
        s5 == return_if_none(s4, symbol_count)
        s6 == _add_int_value_in_range(s5, symbol_count, "symbol_count", 1, 8, TRUE, FALSE)
    IN _newline_after(s6)

add_barcode_micropdf_417(z, orientation, height, mode) ==
    LET s0 == append(Begin(z), <<94, 66, 70>>)        \* '^BF'
        s1 == return_if_none(s0, orientation)
        s2 == _add_orientation(s1, orientation, FALSE)
        s3 == return_if_none(s2, height)
        s4 == _add_int_value_in_range(s3, height, "height", 1, 9999, TRUE, FALSE)
        s5 == return_if_none(s4, mode)
        s6 == _add_int_value_in_range(s5, mode, "mode", 0, 33, TRUE, FALSE)
    IN _newline_after(s6)

add_barcode_qr(z, model, magnification, error_correction, mask_value) ==
    LET s0 == append(Begin(z), <<94, 66, 81, 78>>)    \* '^BQN'
        s1 == return_if_none(s0, model)
        s2 == _add_value_in_list(s1, model, "model", <<PyInt(1), PyInt(2)>>, TRUE)
        s3 == return_if_none(s2, magnification)
        s4 == _add_int_value_in_range(s3, magnification, "magnification", 1, 10, TRUE, FALSE)
        s5 == return_if_none(s4, error_correction)
        s6 == _add_value_in_list(s5, error_correction, "error_correction",
                                 <<PyStr(<<72>>), PyStr(<<81>>), PyStr(<<77>>), PyStr(<<76>>)>>, TRUE)
        s7 == return_if_none(s6, mask_value)
        s8 == _add_int_value_in_range(s7, mask_value, "mask_value", 0, 7, TRUE, FALSE)
    IN _newline_after(s8)

add_field_data_tlc39(z, eci_number, serial_number, additional_data) ==
    LET s0 == Begin(z)
        s1 == IF eci_number.t # "str" THEN raise(s0, "TypeError", "eci_number")
              ELSE IF ~(Len(eci_number.s) = 6 /\ isdigit(eci_number.s))
              THEN raise(s0, "ValueError", "eci_number")
              ELSE s0
        data1 == <<eci_number.s>>
        \* self.add_field_data(','.join(data)); return
        emit(r, data) == IF r.st # "run" THEN r
                         ELSE add_field_data(r.zpl, PyStr(Join(COMMA, data)), FALSE)
        s2 == IF serial_number = None THEN emit(s1, data1) ELSE s1
        s3 == IF serial_number.t # "str" THEN raise(s2, "TypeError", "serial_number")
              ELSE IF ~(1 <= Len(serial_number.s) /\ Len(serial_number.s) <= 26
                        /\ isalnum(serial_number.s))
              THEN raise(s2, "ValueError", "serial_number")
              ELSE s2
        data2 == Append(data1, serial_number.s)
        s4 == IF additional_data = None THEN emit(s3, data2) ELSE s3
        s5 == IF additional_data.t = "list"
              THEN IF \E k \in 1..Len(additional_data.l) : Len(additional_data.l[k]) >= 25
                   THEN raise(s4, "ValueError", "additional_data") ELSE s4
              ELSE IF Len(additional_data.s) > 25
                   THEN raise(s4, "ValueError", "additional_data") ELSE s4
        ad_joined == IF additional_data.t = "list" THEN Join(COMMA, additional_data.l)
                     ELSE additional_data.s
        s6 == IF Len(ad_joined) > 139 THEN raise(s5, "ValueError", "additional_data") ELSE s5
        s7 == IF ~isalnum(ad_joined) THEN raise(s6, "ValueError", "additional_data") ELSE s6
        data3 == Append(data2, ad_joined)
        s8 == emit(s7, data3)
    IN _newline_after(s8)

add_barcode_tlc39(z, orientation, code_39_width, code_39_ratio, code_39_height, micropdf417_height, micropdf417_width) ==
    LET s0 == append(Begin(z), <<94, 66, 84>>)        \* '^BT'
        s1 == return_if_none(s0, orientation)
        s2 == _add_orientation(s1, orientation, FALSE)
        s3 == return_if_none(s2, code_39_width)
        s4 == _add_int_value_in_range(s3, code_39_width, "code_39_width", 1, 10, TRUE, FALSE)
        s5 == return_if_none(s4, code_39_ratio)
        s6 == _add_decimal_value_in_range(s5, code_39_ratio, "code_39_ratio", 2, 3, TRUE)
        s7 == return_if_none(s6, code_39_height)
        s8 == _add_int_value_in_range(s7, code_39_height, "code_39_height", 1, 9999, TRUE, FALSE)
        s9 == return_if_none(s8, micropdf417_height)
        s10 == _add_int_value_in_range(s9, micropdf417_height, "micropdf417_height", 1, 255, TRUE, FALSE)
        s11 == return_if_none(s10, micropdf417_width)
        s12 == _add_int_value_in_range(s11, micropdf417_width, "micropdf417_width", 1, 10, TRUE, FALSE)
    IN _newline_after(s12)

\* The return of a helper method: the method that called it goes on.
resume(r) == IF r.st = "return" THEN [r EXCEPT !.st = "run"] ELSE r

\* The shared encoder of the 1D barcodes, called on a method in progress;
\* its early returns end the helper, not the method that called it.
_add_standard_1d_barcode(r, zpl_code, orientation, check_digit_one, height, print_text, text_above, check_digit_two) ==
    LET s0 == append(r, <<94>> \o zpl_code)           \* '^{}'
        s1 == return_if_none(s0, orientation)
        s2 == _add_orientation(s1, orientation, FALSE)
        s3 == IF Truthy(check_digit_one) THEN _add_yes_no(s2, check_digit_one, "check_digit", TRUE)
              ELSE s2
        s4 == return_if_none(s3, height)
        s5 == _add_int_value_in_range(s4, height, "height", 1, 32000, TRUE, FALSE)
        s6 == return_if_none(s5, print_text)
        s7 == _add_yes_no(s6, print_text, "print_text", TRUE)
        s8 == return_if_none(s7, text_above)
        s9 == _add_yes_no(s8, text_above, "text_above", TRUE)
        s10 == return_if_none(s9, check_digit_two)
    IN resume(_add_yes_no(s10, check_digit_two, "check_digit", TRUE))

add_barcode_code_11(z, orientation, check_digit, height, print_text, text_above) ==
    _newline_after(_add_standard_1d_barcode(Begin(z), <<66, 49>>, orientation, check_digit,
                                            height, print_text, text_above, None))

add_barcode_code_39(z, orientation, check_digit, height, print_text, text_above) ==
    _newline_after(_add_standard_1d_barcode(Begin(z), <<66, 51>>, orientation, check_digit,
                                            height, print_text, text_above, None))

\* The arguments are passed by position: height lands in check_digit_one,
\* print_text in height, text_above in print_text.
add_barcode_industrial_2_of_5(z, orientation, height, print_text, text_above) ==
    _newline_after(_add_standard_1d_barcode(Begin(z), <<66, 73>>, orientation, height,
                                            print_text, text_above, None, None))

add_barcode_standard_2_of_5(z, orientation, height, print_text, text_above) ==
    _newline_after(_add_standard_1d_barcode(Begin(z), <<66, 74>>, orientation, None,
                                            height, print_text, text_above, None))

add_barcode_ansi_codabar(z, orientation, height, print_text, text_above, start_character, stop_character) ==
    LET abcd == <<PyStr(<<65>>), PyStr(<<66>>), PyStr(<<67>>), PyStr(<<68>>)>>
        s0 == _add_standard_1d_barcode(Begin(z), <<66, 75>>, orientation, PyStr(<<78>>),
                                       height, print_text, text_above, None)
        s1 == return_if_none(s0, start_character)
        s2 == _add_value_in_list(s1, start_character, "start_character", abcd, TRUE)
        s3 == return_if_none(s2, stop_character)
        s4 == _add_value_in_list(s3, stop_character, "stop_character", abcd, TRUE)
    IN _newline_after(s4)

add_barcode_logmars(z, orientation, height, text_above) ==
    LET s0 == _add_standard_1d_barcode(Begin(z), <<66, 74>>, orientation, None,
                                       height, None, None, None)
        s1 == return_if_none(s0, text_above)
        s2 == _add_yes_no(s1, text_above, "text_above", TRUE)
    IN _newline_after(s2)

add_barcode_msi(z, orientation, check_digit, height, print_text, text_above, insert_check_digit) ==
    LET s0 == append(Begin(z), <<94, 66, 77>>)        \* '^BM'
        s1 == return_if_none(s0, orientation)
        s2 == _add_orientation(s1, orientation, FALSE)
        s3 == return_if_none(s2, check_digit)
        s4 == _add_value_in_list(s3, check_digit, "check_digit",
                                 <<PyStr(<<65>>), PyStr(<<66>>), PyStr(<<67, 44>>), PyStr(<<68>>)>>, TRUE)
        s5 == return_if_none(s4, height)
        s6 == _add_int_value_in_range(s5, height, "height", 1, 32000, TRUE, FALSE)
        s7 == return_if_none(s6, print_text)
        s8 == _add_yes_no(s7, print_text, "print_text", TRUE)
        s9 == return_if_none(s8, text_above)
        s10 == _add_yes_no(s9, text_above, "text_above", TRUE)
        s11 == return_if_none(s10, insert_check_digit)
        s12 == _add_yes_no(s11, insert_check_digit, "insert_check_digit", TRUE)
    IN _newline_after(s12)

add_barcode_plessey(z, orientation, check_digit, height, print_text, text_above) ==
    _newline_after(_add_standard_1d_barcode(Begin(z), <<66, 80>>, orientation, check_digit,
                                            height, print_text, text_above, None))

add_barcode_postal(z, orientation, height, print_text, text_above, code_type) ==
    LET s0 == _add_standard_1d_barcode(Begin(z), <<66, 90>>, orientation, None,
                                       height, print_text, text_above, None)
        s1 == return_if_none(s0, code_type)
        s2 == _add_int_value_in_range(s1, code_type, "code_type", 0, 3, TRUE, FALSE)
    IN _newline_after(s2)

add_barcode_default(z, module_width, wide_narrow_ratio, height) ==
    LET s0 == append(Begin(z), <<94, 66, 89>>)        \* '^BY'
        s1 == return_if_none(s0, module_width)
        s2 == _add_int_value_in_range(s1, module_width, "module_width", 1, 10, FALSE, FALSE)
        s3 == return_if_none(s2, wide_narrow_ratio)
        s4 == _add_decimal_value_in_range(s3, wide_narrow_ratio, "wide_narrow_ratio", 2, 3, TRUE)
        s5 == return_if_none(s4, module_width)
        s6 == _add_int_value_in_range(s5, module_width, "module_width", 1, 10, TRUE, FALSE)
        s7 == return_if_none(s6, height)
        s8 == _add_int_value_in_range(s7, height, "height", 1, 200, TRUE, FALSE)
    IN _newline_after(s8)

add_comment(z, comment_text) ==
    LET s0 == append(Begin(z), <<94, 70, 88>> \o str(comment_text) \o <<94, 70, 83>>)  \* '^FX{}^FS'
    IN _newline_after(s0)

\* add_graphic_box that takes 1 as the minimum of width and height whatever
\* the border.
add_graphic_box_min_1(z, width, height, border, line_color, corner_rounding) ==
    LET s0 == append(Begin(z), <<94, 71, 66>>)        \* '^GB'
        s1 == return_if_none(s0, width)
        s2 == _add_int_value_in_range(s1, width, "width", 1, 32000, FALSE, FALSE)
        s3 == return_if_none(s2, height)
        s4 == _add_int_value_in_range(s3, height, "height", 1, 32000, TRUE, FALSE)
        s5 == return_if_none(s4, border)
        s6 == _add_int_value_in_range(s5, border, "border", 1, 32000, TRUE, FALSE)
        s7 == return_if_none(s6, line_color)
        s8 == _add_line_color(s7, line_color, TRUE)
        s9 == return_if_none(s8, corner_rounding)
        s10 == _add_int_value_in_range(s9, corner_rounding, "corner_rounding", 0, 8, TRUE, FALSE)
    IN _newline_after(s10)

\* use_border is the border when it is truthy and 1 otherwise (the border
\* is an int or None).
add_graphic_box(z, width, height, border, line_color, corner_rounding) ==
    LET use_border == IF Truthy(border) THEN border.i ELSE 1
        s0 == append(Begin(z), <<94, 71, 66>>)        \* '^GB'
        s1 == return_if_none(s0, width)
        s2 == _add_int_value_in_range(s1, width, "width", use_border, 32000, FALSE, FALSE)
        s3 == return_if_none(s2, height)
        s4 == _add_int_value_in_range(s3, height, "height", use_border, 32000, TRUE, FALSE)
        s5 == return_if_none(s4, border)
        s6 == _add_int_value_in_range(s5, border, "border", 1, 32000, TRUE, FALSE)
        s7 == return_if_none(s6, line_color)
        s8 == _add_line_color(s7, line_color, TRUE)
        s9 == return_if_none(s8, corner_rounding)
        s10 == _add_int_value_in_range(s9, corner_rounding, "corner_rounding", 0, 8, TRUE, FALSE)
    IN _newline_after(s10)

add_graphic_circle(z, diameter, border, color) ==
    LET s0 == append(Begin(z), <<94, 71, 67>>)        \* '^GC'
        s1 == return_if_none(s0, diameter)
        s2 == _add_int_value_in_range(s1, diameter, "diameter", 3, 4095, FALSE, TRUE)
        s3 == return_if_none(s2, border)
        s4 == _add_int_value_in_range(s3, border, "border", 1, 4095, TRUE, TRUE)
        s5 == return_if_none(s4, color)
        s6 == _add_line_color(s5, color, TRUE)
    IN _newline_after(s6)

---------------------------------------------------------------------------
(* The Formatter as a state machine *)

\* __init__: the stream is [START] and a newline.
Init ==
    /\ zpl = _newline(Begin(<<START>>)).zpl
    /\ calls = 0
    /\ fails = 0
    /\ last = [op |-> "__init__", args |-> <<>>, pre |-> <<>>, st |-> "return", exc |-> "", field |-> ""]
    /\ out = [kind |-> "none", text |-> <<>>, bytes |-> <<>>, prev |-> <<>>]

\* One call of a command method with the given arguments; r is the method's
\* outcome on the current stream.
Do(op, args, r) ==
    /\ zpl' = r.zpl
    /\ calls' = calls + 1
    /\ fails' = fails + (IF r.st = "raise" THEN 1 ELSE 0)
    /\ last' = [op |-> op, args |-> args, pre |-> zpl, st |-> r.st, exc |-> r.exc, field |-> r.field]
    /\ UNCHANGED out

\* The renderings.

RECURSIVE Concat(_)
\* ''.join(items)
Concat(items) == IF items = <<>> THEN <<>> ELSE Head(items) \o Concat(Tail(items))

\* zpl_text with the fragments joined by newlines.
zpl_text_lines(z) == Join(NL, z \o <<END>>)

\* ''.join([str(item) for item in self.zpl + [self.END]]); every fragment
\* of the stream is a str already.
zpl_text(z) == Concat(z \o <<END>>)

\* The UTF-8 bytes of one code point (surrogates, which do not encode, are
\* not drawn).
Utf8Char(c) ==
    IF c < 128 THEN <<c>>
    ELSE IF c < 2048 THEN <<192 + (c \div 64), 128 + (c % 64)>>
    ELSE IF c < 65536 THEN <<224 + (c \div 4096), 128 + ((c \div 64) % 64), 128 + (c % 64)>>
    ELSE <<240 + (c \div 262144), 128 + ((c \div 4096) % 64), 128 + ((c \div 64) % 64), 128 + (c % 64)>>

RECURSIVE Utf8(_)
\* bytes(text, 'utf-8')
Utf8(text) == IF text = <<>> THEN <<>> ELSE Utf8Char(Head(text)) \o Utf8(Tail(text))

zpl_bytes(z) == Utf8(zpl_text(z))

\* zpl_text storing the end sentinel in the stream before it joins it.
ZplText_stores_end ==
    /\ zpl' = Append(zpl, END)
    /\ out' = [kind |-> "text", text |-> Concat(zpl'), bytes |-> <<>>, prev |-> out.text]
    /\ last' = [op |-> "zpl_text", args |-> <<>>, pre |-> zpl, st |-> "return", exc |-> "", field |-> ""]
    /\ UNCHANGED <<calls, fails>>

\* The property zpl_text is read: the stream is left as it is. out holds
\* what the read returned, and the text the read before it returned.
ZplText ==
    /\ out' = [kind |-> "text", text |-> zpl_text(zpl), bytes |-> <<>>, prev |-> out.text]
    /\ last' = [op |-> "zpl_text", args |-> <<>>, pre |-> zpl, st |-> "return", exc |-> "", field |-> ""]
    /\ UNCHANGED <<zpl, calls, fails>>

\* zpl_bytes consuming the stream it renders.
ZplBytes_drains ==
    /\ out' = [kind |-> "bytes", text |-> zpl_text(zpl), bytes |-> zpl_bytes(zpl), prev |-> out.text]
    /\ zpl' = <<START, NL>>
    /\ last' = [op |-> "zpl_bytes", args |-> <<>>, pre |-> zpl, st |-> "return", exc |-> "", field |-> ""]
    /\ UNCHANGED <<calls, fails>>

\* The property zpl_bytes is read: it reads zpl_text and encodes it.
ZplBytes ==
    /\ out' = [kind |-> "bytes", text |-> zpl_text(zpl), bytes |-> zpl_bytes(zpl), prev |-> out.text]
    /\ last' = [op |-> "zpl_bytes", args |-> <<>>, pre |-> zpl, st |-> "return", exc |-> "", field |-> ""]
    /\ UNCHANGED <<zpl, calls, fails>>

---------------------------------------------------------------------------
(* Spec: sequences of MaxCmds commands, with renderings in between, on     *)
(* representative arguments.                                               *)

\* Argument values
Y == PyStr(<<89>>)

N == PyStr(<<78>>)

\* fonts '0' and 'A'
Font ==
    /\ calls < MaxCmds
    /\ \E a \in { <<PyStr(<<48>>), None, None, None>>,
                  <<PyStr(<<65>>), N, PyInt(9), None>>,
                  <<PyStr(<<65>>), N, PyInt(10), PyInt(0)>> } :
          Do("add_font", a, add_font(zpl, a[1], a[2], a[3], a[4]))

LabelHome ==
    /\ calls < MaxCmds
    /\ \E x \in {PyInt(10), PyInt(32001)}, y \in {None, PyInt(20)} :
          Do("add_label_home", <<x, y>>, add_label_home(zpl, x, y))

\* 'A', and 'e-acute' with the euro sign (2 and 3 bytes in UTF-8)
Comment ==
    /\ calls < MaxCmds
    /\ \E t \in {PyStr(<<65>>), PyStr(<<233, 8364>>)} :
          Do("add_comment", <<t>>, add_comment(zpl, t))

\* 'a\nb' as one payload, and the two segments 'a', 'b'
FieldData ==
    /\ calls < MaxCmds
    /\ \E d \in {PyStr(<<97, 10, 98>>), PyList(<<<<97>>, <<98>>>>)}, rn \in BOOLEAN :
          Do("add_field_data", <<d, IF rn THEN PyInt(1) ELSE PyInt(0)>>, add_field_data(zpl, d, rn))

\* '123456' and '12345'; serial 'AB'; additional data 'X1'
FieldDataTlc39 ==
    /\ calls < MaxCmds
    /\ \E a \in { <<PyStr(<<49, 50, 51, 52, 53, 54>>), None, None>>,
                  <<PyStr(<<49, 50, 51, 52, 53>>), None, None>>,
                  <<PyStr(<<49, 50, 51, 52, 53, 54>>), PyStr(<<65, 66>>), PyStr(<<88, 49>>)>> } :
          Do("add_field_data_tlc39", a, add_field_data_tlc39(zpl, a[1], a[2], a[3]))

BarcodePdf417 ==
    /\ calls < MaxCmds
    /\ \E a \in { <<N, None, None>>, <<N, PyInt(5), PyInt(3)>>, <<N, PyInt(5), PyInt(9)>> } :
          Do("add_barcode_pdf417", <<a[1], a[2], a[3], None, None, None>>,
             add_barcode_pdf417(zpl, a[1], a[2], a[3], None, None, None))

GraphicCircle ==
    /\ calls < MaxCmds
    /\ \E c \in {None, PyStr(<<88>>)} :
          Do("add_graphic_circle", <<PyInt(1), PyInt(5000), c>>,
             add_graphic_circle(zpl, PyInt(1), PyInt(5000), c))

Next ==
    \/ Font
    \/ LabelHome
    \/ Comment
    \/ FieldData
    \/ FieldDataTlc39
    \/ BarcodePdf417
    \/ GraphicCircle
    \/ ZplText
    \/ ZplBytes

Spec == Init /\ [][Next]_vars

---------------------------------------------------------------------------
(* SpecArgs: MaxArgCmds commands on one Formatter, each drawn with every   *)
(* pattern of supplied and omitted parameters and with values at and       *)
(* around the bounds of its ranges.                                        *)

\* A parameter omitted, or supplied as v
Opt(v) == {None, v}

ArgsLabelHome ==
    /\ calls < MaxArgCmds
    /\ \E a \in {<<x, y>> : x \in {None, PyInt(0), PyInt(32000)}, y \in {None, PyInt(0), PyInt(32000)}}
                \cup {<<x, PyInt(5)>> : x \in {PyInt(-1), PyInt(32001)}}
                \cup {<<PyInt(5), y>> : y \in {PyInt(-1), PyInt(32001)}} :
          Do("add_label_home", a, add_label_home(zpl, a[1], a[2]))

\* justification 0, 2, 3, '0' and 2.0
ArgsFieldOrigin ==
    /\ calls < MaxArgCmds
    /\ \E x \in Opt(PyInt(0)), y \in Opt(PyInt(7)),
          j \in {None, PyInt(0), PyInt(2), PyInt(3), PyStr(<<48>>), PyFloat(200)} :
          Do("add_field_origin", <<x, y, j>>, add_field_origin(zpl, x, y, j))

ArgsFieldBlock ==
    /\ calls < MaxArgCmds
    /\ \E w \in Opt(PyInt(100)), ml \in Opt(PyInt(1)), d \in Opt(PyInt(-9999)),
          tj \in Opt(PyStr(<<67>>)), hi \in Opt(PyInt(9999)) :
          Do("add_field_block", <<w, ml, d, tj, hi>>, add_field_block(zpl, w, ml, d, tj, hi))

ArgsPrintQuantity ==
    /\ calls < MaxArgCmds
    /\ \E a \in {<<q, p, r, o, c>> : q \in Opt(PyInt(1)), p \in Opt(PyInt(0)), r \in Opt(PyInt(0)),
                                     o \in Opt(Y), c \in Opt(N)}
                \cup {<<q, PyInt(0), None, None, None>> :
                        q \in {PyInt(0), PyInt(99999999), PyInt(100000000)}} :
          Do("add_print_quantity", a, add_print_quantity(zpl, a[1], a[2], a[3], a[4], a[5]))

ArgsBarcodeUpsMaxicode ==
    /\ calls < MaxArgCmds
    /\ \E a \in {<<m, sn, sc>> : m \in Opt(PyInt(2)), sn \in Opt(PyInt(1)), sc \in Opt(PyInt(8))}
                \cup {<<PyInt(7), PyInt(1), None>>, <<PyInt(6), PyInt(0), PyInt(1)>>} :
          Do("add_barcode_ups_maxicode", a, add_barcode_ups_maxicode(zpl, a[1], a[2], a[3]))

ArgsBarcodeMicropdf417 ==
    /\ calls < MaxArgCmds
    /\ \E a \in {<<o, h, m>> : o \in Opt(N), h \in Opt(PyInt(1)), m \in {None, PyInt(0), PyInt(33)}}
                \cup {<<N, PyInt(9999), m>> : m \in {PyInt(-1), PyInt(34)}} :
          Do("add_barcode_micropdf_417", a, add_barcode_micropdf_417(zpl, a[1], a[2], a[3]))

ArgsBarcodePdf417 ==
    /\ calls < MaxArgCmds
    /\ \E o \in Opt(PyStr(<<82>>)), h \in Opt(PyInt(5)), sl \in Opt(PyInt(0)),
          dc \in Opt(PyInt(30)), rc \in Opt(PyInt(3)), t \in Opt(Y) :
          Do("add_barcode_pdf417", <<o, h, sl, dc, rc, t>>,
             add_barcode_pdf417(zpl, o, h, sl, dc, rc, t))

\* ratios 2.5 and 3.1
ArgsBarcodeTlc39 ==
    /\ calls < MaxArgCmds
    /\ \E a \in {<<o, w, r, h, mh, mw>> : o \in Opt(N), w \in Opt(PyInt(10)), r \in Opt(PyFloat(250)),
                                          h \in Opt(PyInt(1)), mh \in Opt(PyInt(255)),
                                          mw \in Opt(PyInt(1))}
                \cup {<<N, PyInt(1), PyFloat(310), PyInt(1), None, None>>} :
          Do("add_barcode_tlc39", a, add_barcode_tlc39(zpl, a[1], a[2], a[3], a[4], a[5], a[6]))

ArgsBarcodeQr ==
    /\ calls < MaxArgCmds
    /\ \E a \in {<<m, g, e, k>> : m \in Opt(PyInt(2)), g \in Opt(PyInt(10)),
                                  e \in Opt(PyStr(<<81>>)), k \in Opt(PyInt(7))}
                \cup {<<PyInt(3), PyInt(1), None, None>>} :
          Do("add_barcode_qr", a, add_barcode_qr(zpl, a[1], a[2], a[3], a[4]))

ArgsGraphicCircle ==
    /\ calls < MaxArgCmds
    /\ \E a \in {<<d, b, None>> : d \in {None, PyInt(-7), PyInt(2), PyInt(3), PyInt(4095), PyInt(4096)},
                                  b \in {None, PyInt(-7), PyInt(0), PyInt(1), PyInt(4095), PyInt(4096)}}
                \cup {<<d, b, c>> : d \in Opt(PyInt(100)), b \in Opt(PyInt(100)),
                                    c \in {PyStr(<<66>>), PyStr(<<88>>)}} :
          Do("add_graphic_circle", a, add_graphic_circle(zpl, a[1], a[2], a[3]))

ArgsBarcodeCode49 ==
    /\ calls < MaxArgCmds
    /\ \E a \in {<<o, h, pt, None, None>> : o \in Opt(N), h \in Opt(PyInt(2)), pt \in Opt(Y)}
                \cup {<<N, PyInt(2), Y, PyStr(<<90>>), None>>, <<N, PyInt(2), N, Y, PyInt(6)>>} :
          Do("add_barcode_code_49", a, add_barcode_code_49(zpl, a[1], a[2], a[3], a[4], a[5]))

NextArgs ==
    \/ ArgsLabelHome
    \/ ArgsFieldOrigin
    \/ ArgsFieldBlock
    \/ ArgsPrintQuantity
    \/ ArgsBarcodeUpsMaxicode
    \/ ArgsBarcodeMicropdf417
    \/ ArgsBarcodePdf417
    \/ ArgsBarcodeTlc39
    \/ ArgsBarcodeQr
    \/ ArgsGraphicCircle
    \/ ArgsBarcodeCode49

SpecArgs == Init /\ [][NextArgs]_vars

---------------------------------------------------------------------------
(* SpecData: MaxDataCmds calls of the field-data preparers on one          *)
(* Formatter, with payloads at and around their bounds.                    *)

\* A bool argument as it is recorded in last.args
Bool(b) == IF b THEN PyInt(1) ELSE PyInt(0)

\* '1234567890123...' and 'BCDEFG...' of length n
Digits(n) == [k \in 1..n |-> 48 + (k % 10)]

Letters(n) == [k \in 1..n |-> 65 + (k % 26)]

\* '123', 11 to 13 and 15 digits, '', '12a', and the number 123
DataEan13 ==
    /\ calls < MaxDataCmds
    /\ \E d \in {PyStr(<<49, 50, 51>>), PyStr(Digits(11)), PyStr(Digits(12)), PyStr(Digits(13)),
                 PyStr(Digits(15)), PyStr(<<>>), PyStr(<<49, 50, 97>>), PyInt(123)} :
          Do("add_field_data_ean_13", <<d>>, add_field_data_ean_13(zpl, d))

\* '123', 10 to 12 digits, '', '1x', and the number 123
DataUpcA ==
    /\ calls < MaxDataCmds
    /\ \E d \in {PyStr(<<49, 50, 51>>), PyStr(Digits(10)), PyStr(Digits(11)), PyStr(Digits(12)),
                 PyStr(<<>>), PyStr(<<49, 120>>), PyInt(123)} :
          Do("add_field_data_upc_a", <<d>>, add_field_data_upc_a(zpl, d))

\* 'AB', 'a', 'Aa', 'A&', '', 'A B-.$/+%', '(1,2)'
Payloads ==
    {PyStr(<<65, 66>>), PyStr(<<97>>), PyStr(<<65, 97>>), PyStr(<<65, 38>>), PyStr(<<>>),
     PyStr(<<65, 32, 66, 45, 46, 36, 47, 43, 37>>), PyStr(<<40, 49, 44, 50, 41>>)}

DataCode39 ==
    /\ calls < MaxDataCmds
    /\ \E d \in Payloads, e \in BOOLEAN :
          Do("add_field_data_code_39", <<d, Bool(e)>>, add_field_data_code_39(zpl, d, e))

DataCode93 ==
    /\ calls < MaxDataCmds
    /\ \E d \in Payloads, e \in BOOLEAN :
          Do("add_field_data_code_93", <<d, Bool(e)>>, add_field_data_code_93(zpl, d, e))

DataLogmars ==
    /\ calls < MaxDataCmds
    /\ \E d \in Payloads :
          Do("add_field_data_logmars", <<d>>, add_field_data_logmars(zpl, d))

\* 1, 13, 14 and 15 digits; 'x', '', 12 and 13 digits followed by 'x', and
\* '1' with a superscript 2
DataMsi ==
    /\ calls < MaxDataCmds
    /\ \E c \in {None, PyStr(<<65>>), PyStr(<<66>>), PyStr(<<67>>), PyStr(<<68>>)},
          d \in {PyStr(Digits(1)), PyStr(Digits(13)), PyStr(Digits(14)), PyStr(Digits(15)),
                 PyStr(<<120>>), PyStr(<<>>), PyStr(Digits(12) \o <<120>>),
                 PyStr(Digits(13) \o <<120>>), PyStr(<<49, 178>>)} :
          Do("add_field_data_msi", <<d, c>>, add_field_data_msi(zpl, d, c))

\* '123456'
Eci == PyStr(<<49, 50, 51, 52, 53, 54>>)

\* 'AB'
Serial == PyStr(<<65, 66>>)

\* Identifiers '12345', '1234567', '12345a', '12345' with a superscript 2,
\* and ''; serials '', 26 and 27 letters, 'A-'; additional data as one
\* string or as a list of segments, of 24, 25 and 26 letters, 'X1', 'X-',
\* '', and lists of several segments up to 6 of 24 letters (149 joined).
DataTlc39 ==
    /\ calls < MaxDataCmds
    /\ \E a \in {<<e, None, None>> :
                    e \in {Eci, PyStr(<<49, 50, 51, 52, 53>>), PyStr(<<49, 50, 51, 52, 53, 54, 55>>),
                           PyStr(<<49, 50, 51, 52, 53, 97>>), PyStr(<<49, 50, 51, 52, 53, 178>>),
                           PyStr(<<>>)}}
                \cup {<<Eci, sn, None>> :
                        sn \in {Serial, PyStr(<<>>), PyStr(Letters(26)), PyStr(Letters(27)),
                                PyStr(<<65, 45>>)}}
                \cup {<<Eci, Serial, ad>> :
                        ad \in {PyStr(<<88, 49>>), PyStr(Letters(24)), PyStr(Letters(25)),
                                PyStr(Letters(26)), PyStr(<<88, 45>>), PyStr(<<>>),
                                PyList(<<>>), PyList(<<<<88, 49>>>>), PyList(<<<<88, 45>>>>),
                                PyList(<<Letters(24)>>), PyList(<<Letters(25)>>),
                                PyList(<<Letters(26)>>),
                                PyList(<<<<88, 49>>, <<89, 50>>>>),
                                PyList(<<<<88, 49>>, <<89, 50>>, <<90, 51>>>>),
                                PyList([k \in 1..5 |-> Letters(24)]),
                                PyList([k \in 1..6 |-> Letters(24)])}}
                \cup {<<PyStr(<<49, 50, 51, 52, 53>>), Serial, PyStr(<<88, 49>>)>>,
                      <<Eci, PyStr(<<>>), PyStr(<<88, 49>>)>>,
                      <<Eci, None, PyStr(<<88, 49>>)>>} :
          Do("add_field_data_tlc39", a, add_field_data_tlc39(zpl, a[1], a[2], a[3]))

\* 'ab', 'a\nb', '\n', '' as one payload; ['a', 'b'], ['a\nb', 'c'], ['a']
\* and [] as segments
DataFieldData ==
    /\ calls < MaxDataCmds
    /\ \E d \in {PyStr(<<97, 98>>), PyStr(<<97, 10, 98>>), PyStr(<<10>>), PyStr(<<>>),
                 PyList(<<<<97>>, <<98>>>>), PyList(<<<<97, 10, 98>>, <<99>>>>),
                 PyList(<<<<97>>>>), PyList(<<>>)},
          rn \in BOOLEAN :
          Do("add_field_data", <<d, Bool(rn)>>, add_field_data(zpl, d, rn))

NextData ==
    \/ DataEan13
    \/ DataUpcA
    \/ DataCode39
    \/ DataCode93
    \/ DataLogmars
    \/ DataMsi
    \/ DataTlc39
    \/ DataFieldData

SpecData == Init /\ [][NextData]_vars

---------------------------------------------------------------------------
(* SpecBar: MaxBarCmds calls of the 1D-barcode encoders, the barcode       *)
(* defaults, the graphic box, the font and the QR code on one Formatter.   *)

\* check_digit 'Y', 'X', '' and 0; heights 0, 10 and 32001
BarCode11 ==
    /\ calls < MaxBarCmds
    /\ \E a \in {<<o, cd, h, pt, N>> : o \in Opt(N), cd \in {None, Y, PyStr(<<88>>), PyStr(<<>>), PyInt(0)},
                                      h \in Opt(PyInt(10)), pt \in Opt(Y)}
                \cup {<<N, None, h, Y, N>> : h \in {PyInt(0), PyInt(32001)}} :
          Do("add_barcode_code_11", a, add_barcode_code_11(zpl, a[1], a[2], a[3], a[4], a[5]))

\* check_digit 'N', 'y' and ''
BarCode39 ==
    /\ calls < MaxBarCmds
    /\ \E cd \in {None, N, PyStr(<<121>>), PyStr(<<>>)}, h \in Opt(PyInt(10)), pt \in Opt(Y) :
          Do("add_barcode_code_39", <<N, cd, h, pt, None>>, add_barcode_code_39(zpl, N, cd, h, pt, None))

\* check_digit 'Y', 1 and 0
BarPlessey ==
    /\ calls < MaxBarCmds
    /\ \E cd \in {None, Y, PyInt(1), PyInt(0)}, h \in Opt(PyInt(32000)), ta \in Opt(Y) :
          Do("add_barcode_plessey", <<N, cd, h, Y, ta>>, add_barcode_plessey(zpl, N, cd, h, Y, ta))

\* heights 1, 10 and 32000
BarIndustrial ==
    /\ calls < MaxBarCmds
    /\ \E o \in Opt(N), h \in {None, PyInt(1), PyInt(10), PyInt(32000)}, pt \in Opt(Y), ta \in Opt(N) :
          Do("add_barcode_industrial_2_of_5", <<o, h, pt, ta>>,
             add_barcode_industrial_2_of_5(zpl, o, h, pt, ta))

BarStandard ==
    /\ calls < MaxBarCmds
    /\ \E o \in Opt(N), h \in {None, PyInt(1), PyInt(10), PyInt(32000)}, pt \in Opt(Y), ta \in Opt(N) :
          Do("add_barcode_standard_2_of_5", <<o, h, pt, ta>>,
             add_barcode_standard_2_of_5(zpl, o, h, pt, ta))

\* code_type 1 and 4
BarPostal ==
    /\ calls < MaxBarCmds
    /\ \E a \in {<<o, h, pt, ta, ct>> : o \in Opt(N), h \in Opt(PyInt(10)), pt \in Opt(Y), ta \in Opt(N),
                                       ct \in Opt(PyInt(1))}
                \cup {<<N, PyInt(10), Y, N, PyInt(4)>>} :
          Do("add_barcode_postal", a, add_barcode_postal(zpl, a[1], a[2], a[3], a[4], a[5]))

\* start 'A' and 'E', stop 'B'
BarAnsiCodabar ==
    /\ calls < MaxBarCmds
    /\ \E a \in {<<N, h, pa[1], pa[2], st, sp>> : h \in Opt(PyInt(10)),
                                                 pa \in {<<None, None>>, <<Y, None>>, <<Y, N>>},
                                                 st \in {None, PyStr(<<65>>), PyStr(<<69>>)},
                                                 sp \in Opt(PyStr(<<66>>))}
                \cup {<<None, PyInt(10), Y, N, PyStr(<<65>>), PyStr(<<66>>)>>} :
          Do("add_barcode_ansi_codabar", a,
             add_barcode_ansi_codabar(zpl, a[1], a[2], a[3], a[4], a[5], a[6]))

\* heights 0 and 10, text_above 'Y' and 'X'
BarLogmars ==
    /\ calls < MaxBarCmds
    /\ \E o \in Opt(N), h \in {None, PyInt(10), PyInt(0)}, ta \in {None, Y, PyStr(<<88>>)} :
          Do("add_barcode_logmars", <<o, h, ta>>, add_barcode_logmars(zpl, o, h, ta))

\* check_digit 'A' to 'D', 'C,' and 'E'
BarMsi ==
    /\ calls < MaxBarCmds
    /\ \E a \in {<<N, cd, h, Y, N, icd>> : cd \in {None, PyStr(<<65>>), PyStr(<<66>>), PyStr(<<67>>),
                                                   PyStr(<<68>>), PyStr(<<67, 44>>), PyStr(<<69>>)},
                                          h \in Opt(PyInt(10)), icd \in Opt(Y)}
                \cup {<<None, PyStr(<<65>>), PyInt(10), Y, N, Y>>} :
          Do("add_barcode_msi", a, add_barcode_msi(zpl, a[1], a[2], a[3], a[4], a[5], a[6]))

\* module widths 0, 1, 2, 10 and 11; ratios 1.9, 2.0, 2.5, 3.0 and 3.1;
\* heights 0, 1, 10, 200 and 201
BarDefault ==
    /\ calls < MaxBarCmds
    /\ \E a \in {<<mw, wr, h>> : mw \in {None, PyInt(1), PyInt(2), PyInt(10)},
                                wr \in {None, PyFloat(200), PyFloat(250), PyFloat(300)},
                                h \in {None, PyInt(1), PyInt(10), PyInt(200)}}
                \cup {<<mw, PyFloat(250), PyInt(10)>> : mw \in {PyInt(0), PyInt(11)}}
                \cup {<<PyInt(2), wr, PyInt(10)>> : wr \in {PyFloat(190), PyFloat(310)}}
                \cup {<<PyInt(2), PyFloat(250), h>> : h \in {PyInt(0), PyInt(201)}} :
          Do("add_barcode_default", a, add_barcode_default(zpl, a[1], a[2], a[3]))

\* widths and heights below, at and above the border; borders -1, 0, 1, 5,
\* 6, 32000 and 32001
GraphicBox ==
    /\ calls < MaxBarCmds
    /\ \E a \in {<<w, h, b, None, None>> : w \in {None, PyInt(0), PyInt(1), PyInt(4), PyInt(5), PyInt(6)},
                                          h \in {None, PyInt(4), PyInt(5)},
                                          b \in {None, PyInt(0), PyInt(1), PyInt(5), PyInt(6)}}
                \cup {<<PyInt(w), PyInt(h), PyInt(b), None, None>> : w \in {32000, 32001}, h \in {32000, 32001},
                                                                    b \in {-1, 32000, 32001}}
                \cup {<<PyInt(5), PyInt(5), PyInt(5), lc, cr>> : lc \in {None, PyStr(<<66>>), PyStr(<<88>>)},
                                                                cr \in {None, PyInt(8), PyInt(9)}} :
          Do("add_graphic_box", a, add_graphic_box(zpl, a[1], a[2], a[3], a[4], a[5]))

\* widths -1, 0, 9, 10, 32000 and 32001
BarFont ==
    /\ calls < MaxBarCmds
    /\ \E a \in {<<PyStr(<<65>>), N, PyInt(10), w>> :
                      w \in {None, PyInt(-1), PyInt(0), PyInt(9), PyInt(10), PyInt(32000), PyInt(32001)}}
                \cup {<<PyStr(<<65>>), o, ch, PyInt(10)>> : o \in Opt(N), ch \in {None, PyInt(9), PyInt(10)}} :
          Do("add_font", a, add_font(zpl, a[1], a[2], a[3], a[4]))

\* the four error-correction constants, 'L' and 'X'
BarQr ==
    /\ calls < MaxBarCmds
    /\ \E ec \in {None, QR_ERROR_CORRECTION_ULTRA_HIGH, QR_ERROR_CORRECTION_HIGH,
                  QR_ERROR_CORRECTION_STANDARD, QR_ERROR_CORRECTION_LOW, PyStr(<<76>>), PyStr(<<88>>)},
          mv \in Opt(PyInt(7)) :
          Do("add_barcode_qr", <<PyInt(2), PyInt(3), ec, mv>>, add_barcode_qr(zpl, PyInt(2), PyInt(3), ec, mv))

NextBar ==
    \/ BarCode11
    \/ BarCode39
    \/ BarPlessey
    \/ BarIndustrial
    \/ BarStandard
    \/ BarPostal
    \/ BarAnsiCodabar
    \/ BarLogmars
    \/ BarMsi
    \/ BarDefault
    \/ GraphicBox
    \/ BarFont
    \/ BarQr

SpecBar == Init /\ [][NextBar]_vars

---------------------------------------------------------------------------
(* What the last call left in the stream *)

Renders == {"zpl_text", "zpl_bytes"}

IsCmd == last.op \notin (Renders \cup {"__init__"})

IsPrefix(a, b) == Len(a) <= Len(b) /\ SubSeq(b, 1, Len(a)) = a

\* The fragments the last call appended.
Appended == SubSeq(zpl, Len(last.pre) + 1, Len(zpl))

\* The appended fragments after the opcode, without the closing newline of
\* a call that returned.
ParamFrags ==
    IF last.st = "return" THEN SubSeq(Appended, 2, Len(Appended) - 1)
    ELSE SubSeq(Appended, 2, Len(Appended))

\* The parameter values among them.
Values == SelectSeq(ParamFrags, LAMBDA f : f # COMMA)

Count(frag, z) == Cardinality({k \in 1..Len(z) : z[k] = frag})

\* The number of leading arguments that are not None.
LeadingRun(args) ==
    Cardinality({k \in 1..Len(args) : \A j \in 1..k : args[j] # None})

Clamped(n, lo, hi) == IF n < lo THEN lo ELSE IF n > hi THEN hi ELSE n

\* The text a supplied argument is emitted as: the two clamped fields of
\* add_graphic_circle at their bounds, a ratio to one decimal, anything
\* else as its string form.
Shown(op, k, v) ==
    IF op = "add_graphic_circle" /\ k = 1 THEN Dec(Clamped(v.i, 3, 4095))
    ELSE IF op = "add_graphic_circle" /\ k = 2 THEN Dec(Clamped(v.i, 1, 4095))
    ELSE str(round1(v))

\* The encoders that emit all of their own parameters.
HaltOps ==
    {"add_label_home", "add_field_origin", "add_field_block", "add_print_quantity",
     "add_barcode_ups_maxicode", "add_barcode_micropdf_417", "add_barcode_pdf417",
     "add_barcode_tlc39", "add_barcode_qr", "add_graphic_circle"}

---------------------------------------------------------------------------
(* Claims *)

\* C1: when one of the encoders that emit all of their own parameters
\* returns, the values it emitted after the opcode are exactly its leading
\* arguments up to the first None, in declaration order; with no argument
\* only the opcode is emitted.
C1_HaltOnFirstGap ==
    (last.op \in HaltOps /\ last.st = "return") =>
        /\ Len(Values) = LeadingRun(last.args)
        /\ \A k \in 1..Len(Values) : Values[k] = Shown(last.op, k, last.args[k])
        /\ Appended[Len(Appended)] = NL

\* C1 witness: parameters 1 and 3 supplied, 2 omitted, and only parameter
\* 1 emitted.
C1_Witness ==
    /\ last.op \in HaltOps /\ last.st = "return"
    /\ Len(last.args) >= 3
    /\ last.args[1] # None /\ last.args[2] = None /\ last.args[3] # None
    /\ Values = <<str(last.args[1])>>

\* C2 (as claimed): a command that returns appends exactly one newline
\* fragment, as its last fragment, and after n commands that all returned
\* the stream holds n + 1 newline fragments.
C2_OneNewlinePerCommand ==
    (IsCmd /\ last.st = "return") =>
        /\ Count(NL, Appended) = 1
        /\ Appended[Len(Appended)] = NL
        /\ (fails = 0 => Count(NL, zpl) = calls + 1)

\* The parameters a command's opcode fragment already carries: '^BQN'
\* holds the fixed orientation of the QR code.
InOpcode(op) == IF op = "add_barcode_qr" THEN 1 ELSE 0

\* C3 (as claimed): in a command every emitted parameter but the first is
\* preceded by exactly one comma fragment and the first by none, so the
\* fragments after the opcode alternate value, comma, value, ...
C3_SeparatorRule ==
    IsCmd =>
        LET f == IF InOpcode(last.op) = 1 THEN <<<<78>>>> \o ParamFrags ELSE ParamFrags
        IN \A k \in 1..Len(f) : (f[k] = COMMA) <=> (k % 2 = 0)

RECURSIVE SumLen(_)
\* The total length of the fragments of z.
SumLen(z) == IF z = <<>> THEN 0 ELSE Len(Head(z)) + SumLen(Tail(z))

RECURSIVE Utf8Decode(_)
\* The code points a sequence of UTF-8 bytes stands for.
Utf8Decode(bs) ==
    IF bs = <<>> THEN <<>>
    ELSE IF bs[1] < 128 THEN <<bs[1]>> \o Utf8Decode(SubSeq(bs, 2, Len(bs)))
    ELSE IF bs[1] < 224
    THEN <<(bs[1] - 192) * 64 + (bs[2] - 128)>> \o Utf8Decode(SubSeq(bs, 3, Len(bs)))
    ELSE IF bs[1] < 240
    THEN <<(bs[1] - 224) * 4096 + (bs[2] - 128) * 64 + (bs[3] - 128)>>
         \o Utf8Decode(SubSeq(bs, 4, Len(bs)))
    ELSE <<(bs[1] - 240) * 262144 + (bs[2] - 128) * 4096 + (bs[3] - 128) * 64 + (bs[4] - 128)>>
         \o Utf8Decode(SubSeq(bs, 5, Len(bs)))

\* C5: a rendering of a Formatter that got no command is '^XA\n^XZ'; a
\* text rendering holds every stored fragment, in order and back to back,
\* and then '^XZ'; the bytes of a byte rendering are all below 256 and
\* decode, as UTF-8, to that text.
C5_Rendering ==
    (last.op \in Renders) =>
        /\ (calls = 0 => out.text = <<94, 88, 65, 10, 94, 88, 90>>)
        /\ (calls = 0 /\ out.kind = "bytes" => out.bytes = <<94, 88, 65, 10, 94, 88, 90>>)
        /\ Len(out.text) = SumLen(zpl) + 3
        /\ \A k \in 1..Len(zpl) :
              SubSeq(out.text, SumLen(SubSeq(zpl, 1, k - 1)) + 1, SumLen(SubSeq(zpl, 1, k))) = zpl[k]
        /\ SubSeq(out.text, SumLen(zpl) + 1, SumLen(zpl) + 3) = END
        /\ (out.kind = "bytes" =>
                /\ \A k \in 1..Len(out.bytes) : out.bytes[k] \in 0..255
                /\ Utf8Decode(out.bytes) = out.text)

\* C5 witness: a byte rendering of a stream with characters that take
\* more than one byte.
C5_Witness ==
    /\ last.op = "zpl_bytes" /\ calls >= 1
    /\ Len(out.bytes) > Len(out.text)

\* The text of a rendering without its closing '^XZ'.
StripEnd(text) == SubSeq(text, 1, Len(text) - 3)

\* C6: a rendering leaves the stream as it is; a rendering that follows
\* another with no command in between returns the same text; and a
\* rendering returns a text that the one returned before it, less its
\* '^XZ', is a prefix of.
C6_RenderReadOnly ==
    /\ [][last'.op \in Renders =>
            /\ zpl' = zpl
            /\ (last.op \in Renders => out'.text = out.text)]_vars
    /\ [](last.op \in Renders /\ out.prev # <<>> =>
            IsPrefix(StripEnd(out.prev), out.text))

\* C6 witness: a rendering, a command that appended, and a rendering again.
C6_Witness ==
    /\ last.op \in Renders
    /\ out.prev # <<>>
    /\ Len(out.text) > Len(out.prev)

\* C7: the stream is append-only: whatever a step does, and whether the
\* call returns or raises, the stream before it is a prefix of the stream
\* after it.
C7_AppendOnly == [][IsPrefix(zpl, zpl')]_vars

\* C7 witness: a second command that raised after appending fragments.
C7_Witness ==
    /\ IsCmd /\ last.st = "raise" /\ calls >= 2
    /\ Len(zpl) > Len(last.pre) + 1

\* The fields of each command in the order it emits them, by the names
\* its error messages use. add_barcode_code_49 emits print_text and
\* text_above as one field.
Slots(op) ==
    CASE op = "add_label_home" -> <<{"x_pos"}, {"y_pos"}>>
      [] op = "add_field_origin" -> <<{"x_pos"}, {"y_pos"}, {"justification"}>>
      [] op = "add_field_block" ->
            <<{"width"}, {"max_lines"}, {"dots_between_lines"}, {"text_justification"},
              {"hanging_indent"}>>
      [] op = "add_print_quantity" ->
            <<{"quantity"}, {"pause_and_cut_count"}, {"replicates_of_serial"}, {"override_pause"},
              {"cut_on_error"}>>
      [] op = "add_barcode_ups_maxicode" -> <<{"mode"}, {"symbol_number"}, {"symbol_count"}>>
      [] op = "add_barcode_micropdf_417" -> <<{"orientation"}, {"height"}, {"mode"}>>
      [] op = "add_barcode_pdf417" ->
            <<{"orientation"}, {"height"}, {"security_level"}, {"data_column_count"},
              {"row_count"}, {"truncate"}>>
      [] op = "add_barcode_tlc39" ->
            <<{"orientation"}, {"code_39_width"}, {"code_39_ratio"}, {"code_39_height"},
              {"micropdf417_height"}, {"micropdf417_width"}>>
      [] op = "add_barcode_qr" ->
            <<{"model"}, {"magnification"}, {"error_correction"}, {"mask_value"}>>
      [] op = "add_graphic_circle" -> <<{"diameter"}, {"border"}, {"color"}>>
      [] op = "add_barcode_code_49" ->
            <<{"orientation"}, {"height_multiplier"}, {"print_text", "text_above"},
              {"starting_mode"}>>
      [] OTHER -> <<>>

\* The place of a named field among the fields its command emits (0 when
\* the command has no such field).
SlotOf(op, field) ==
    IF \E k \in 1..Len(Slots(op)) : field \in Slots(op)[k]
    THEN CHOOSE k \in 1..Len(Slots(op)) : field \in Slots(op)[k]
    ELSE 0

Opcode(op) ==
    CASE op = "add_label_home" -> <<94, 76, 72>>
      [] op = "add_field_origin" -> <<94, 70, 79>>
      [] op = "add_field_block" -> <<94, 70, 66>>
      [] op = "add_print_quantity" -> <<94, 80, 81>>
      [] op = "add_barcode_ups_maxicode" -> <<94, 66, 68>>
      [] op = "add_barcode_micropdf_417" -> <<94, 66, 70>>
      [] op = "add_barcode_pdf417" -> <<94, 66, 55>>
      [] op = "add_barcode_tlc39" -> <<94, 66, 84>>
      [] op = "add_barcode_qr" -> <<94, 66, 81, 78>>
      [] op = "add_graphic_circle" -> <<94, 71, 67>>
      [] op = "add_barcode_code_49" -> <<94, 66, 52>>
      [] OTHER -> <<>>

\* C8: when a field of a command fails validation, nothing of that field
\* is in the stream, neither its separator nor its value: the stream is
\* the stream before the call, the opcode, and the separators and values
\* of the fields before the failing one, with no newline after them.
C8_FieldAtomicOnRaise ==
    (IsCmd /\ last.st = "raise" /\ SlotOf(last.op, last.field) > 0) =>
        /\ IsPrefix(last.pre, zpl)
        /\ Appended # <<>> /\ Appended[1] = Opcode(last.op)
        /\ Len(Values) = SlotOf(last.op, last.field) - 1
        /\ \A k \in 1..Len(Values) : Values[k] = Shown(last.op, k, last.args[k])
        /\ zpl[Len(zpl)] # COMMA
        /\ Count(NL, Appended) = 0

\* C8 witness: the third field of a command failed after two were emitted.
C8_Witness ==
    /\ IsCmd /\ last.st = "raise"
    /\ SlotOf(last.op, last.field) = 3
    /\ Len(Values) = 2

\* C9: the diameter and the border of add_graphic_circle are clamped: a
\* value below the minimum is emitted as the minimum (3, 1), one above
\* the maximum as the maximum (4095), one in the range as it is, and
\* neither field raises for any integer.
C9_ClampPolicy ==
    (last.op = "add_graphic_circle") =>
        LET d == last.args[1]
            b == last.args[2]
        IN /\ (last.st = "raise" => last.field = "color")
           /\ (d # None =>
                 /\ Len(Values) >= 1
                 /\ Values[1] = (IF d.i < 3 THEN <<51>>
                                 ELSE IF d.i > 4095 THEN <<52, 48, 57, 53>> ELSE Dec(d.i)))
           /\ (d # None /\ b # None =>
                 /\ Len(Values) >= 2
                 /\ Values[2] = (IF b.i < 1 THEN <<49>>
                                 ELSE IF b.i > 4095 THEN <<52, 48, 57, 53>> ELSE Dec(b.i)))

\* C9 witness: a diameter below 3 and a border above 4095, emitted as 3
\* and 4095.
C9_Witness ==
    /\ last.op = "add_graphic_circle"
    /\ last.args[1] # None /\ last.args[1].i < 3
    /\ last.args[2] # None /\ last.args[2].i > 4095
    /\ Values = <<<<51>>, <<52, 48, 57, 53>>>>

NoRange == [lo |-> 1, hi |-> 0]

\* The integer fields validated against a range without clamping, with
\* their bounds (NoRange for a field of another kind).
RejectRanges(op) ==
    CASE op = "add_label_home" -> <<[lo |-> 0, hi |-> 32000], [lo |-> 0, hi |-> 32000]>>
      [] op = "add_field_origin" -> <<[lo |-> 0, hi |-> 32000], [lo |-> 0, hi |-> 32000], NoRange>>
      [] op = "add_field_block" ->
            <<NoRange, [lo |-> 1, hi |-> 9999], [lo |-> -9999, hi |-> 9999], NoRange,
              [lo |-> 0, hi |-> 9999]>>
      [] op = "add_print_quantity" ->
            <<[lo |-> 1, hi |-> 99999999], [lo |-> 0, hi |-> 99999999],
              [lo |-> 0, hi |-> 99999999], NoRange, NoRange>>
      [] op = "add_barcode_ups_maxicode" ->
            <<[lo |-> 2, hi |-> 6], [lo |-> 1, hi |-> 8], [lo |-> 1, hi |-> 8]>>
      [] op = "add_barcode_micropdf_417" ->
            <<NoRange, [lo |-> 1, hi |-> 9999], [lo |-> 0, hi |-> 33]>>
      [] op = "add_barcode_pdf417" ->
            <<NoRange, NoRange, [lo |-> 0, hi |-> 8], [lo |-> 1, hi |-> 30], [lo |-> 3, hi |-> 90],
              NoRange>>
      [] op = "add_barcode_tlc39" ->
            <<NoRange, [lo |-> 1, hi |-> 10], NoRange, [lo |-> 1, hi |-> 9999],
              [lo |-> 1, hi |-> 255], [lo |-> 1, hi |-> 10]>>
      [] op = "add_barcode_qr" ->
            <<NoRange, [lo |-> 1, hi |-> 10], NoRange, [lo |-> 0, hi |-> 7]>>
      [] OTHER -> <<>>

\* The k-th field of the last call was supplied and no earlier field
\* stopped the call.
Reached(k) ==
    /\ LeadingRun(last.args) >= k
    /\ (last.st = "raise" => SlotOf(last.op, last.field) >= k)

\* C10: an integer field validated without clamping raises a ValueError
\* naming it, and emits nothing, for a value below its minimum or above
\* its maximum; at the minimum, at the maximum and between them it does
\* not raise and emits the value in decimal.
C10_RejectPolicy ==
    \A k \in 1..Len(RejectRanges(last.op)) :
        LET rg == RejectRanges(last.op)[k]
            v == last.args[k]
        IN (rg # NoRange /\ Reached(k) /\ v.t = "int") =>
              IF v.i < rg.lo \/ v.i > rg.hi
              THEN /\ last.st = "raise" /\ last.exc = "ValueError"
                   /\ SlotOf(last.op, last.field) = k
                   /\ Len(Values) = k - 1
              ELSE /\ ~(last.st = "raise" /\ SlotOf(last.op, last.field) = k)
                   /\ Len(Values) >= k
                   /\ Values[k] = Dec(v.i)

\* C10 witness: add_label_home at the maximum of x_pos and the minimum of
\* y_pos, both emitted.
C10_Witness ==
    /\ last.op = "add_label_home" /\ last.st = "return"
    /\ last.args = <<PyInt(32000), PyInt(0)>>
    /\ Values = <<<<51, 50, 48, 48, 48>>, <<48>>>>

\* The enumerated fields of each command with the string forms of their
\* allowed values, as sets ({} for a field of another kind).
EnumSets(op) ==
    LET orient == {<<78>>, <<82>>, <<73>>, <<66>>}
        yn == {<<89>>, <<78>>}
    IN CASE op = "add_field_origin" -> <<{}, {}, {<<48>>, <<49>>, <<50>>}>>
         [] op = "add_field_block" -> <<{}, {}, {}, {<<76>>, <<67>>, <<82>>, <<74>>}, {}>>
         [] op = "add_print_quantity" -> <<{}, {}, {}, yn, yn>>
         [] op = "add_barcode_micropdf_417" -> <<orient, {}, {}>>
         [] op = "add_barcode_pdf417" -> <<orient, {}, {}, {}, {}, yn>>
         [] op = "add_barcode_tlc39" -> <<orient, {}, {}, {}, {}, {}>>
         [] op = "add_barcode_qr" -> <<{<<49>>, <<50>>}, {}, {<<72>>, <<81>>, <<77>>, <<76>>}, {}>>
         [] op = "add_graphic_circle" -> <<{}, {}, {<<66>>, <<87>>}>>
         [] op = "add_barcode_code_49" -> <<orient>>
         [] OTHER -> <<>>

\* C11: an enumerated field accepts a value exactly when the string form
\* of the value is the string form of a member of its allowed set, whatever
\* the order of the set; an accepted value is emitted as its string form,
\* and a rejected one raises a ValueError naming the field and emits
\* nothing for it.
C11_EnumeratedCheck ==
    \A k \in 1..Len(EnumSets(last.op)) :
        LET allowed == EnumSets(last.op)[k]
            v == last.args[k]
        IN (allowed # {} /\ Reached(k)) =>
              IF str(v) \in allowed
              THEN /\ ~(last.st = "raise" /\ SlotOf(last.op, last.field) = k)
                   /\ Len(Values) >= k
                   /\ Values[k] = str(v)
              ELSE /\ last.st = "raise" /\ last.exc = "ValueError"
                   /\ SlotOf(last.op, last.field) = k
                   /\ Len(Values) = k - 1

\* C11 witness: add_field_origin with justification '0', emitted as 0.
C11_Witness ==
    /\ last.op = "add_field_origin" /\ last.st = "return"
    /\ last.args[3] = PyStr(<<48>>)
    /\ Values = <<<<48>>, <<55>>, <<48>>>>

\* C11 witness of the rejection: justification 3 raised after x_pos and
\* y_pos were emitted.
C11_Rejects ==
    /\ last.op = "add_field_origin" /\ last.st = "raise"
    /\ last.args[3] = PyInt(3)
    /\ Values = <<<<48>>, <<55>>>>

\* '^FD' + payload + '^FS'
Field(payload) == <<94, 70, 68>> \o payload \o <<94, 70, 83>>

\* The payload between the markers of the field-data fragment the last
\* call appended.
FieldPayload == SubSeq(Appended[1], 4, Len(Appended[1]) - 3)

\* cs is not empty and holds the characters '0' to '9' only.
AllDecimal(cs) == cs # <<>> /\ \A k \in 1..Len(cs) : cs[k] \in 48..57

\* C12: for a payload of decimal digits add_field_data_ean_13 emits field
\* data of exactly 12 digits and add_field_data_upc_a of exactly 11: the
\* payload with zeros on its left when it is shorter, its first 12 (11)
\* digits when it is longer, and no error is raised.
C12_FixedLength ==
    LET n == IF last.op = "add_field_data_ean_13" THEN 12 ELSE 11
        a == last.args[1]
        p == str(a)
    IN (/\ last.op \in {"add_field_data_ean_13", "add_field_data_upc_a"}
        /\ (a.t = "str" \/ (a.t = "int" /\ last.op = "add_field_data_ean_13"))
        /\ AllDecimal(p)) =>
          /\ last.st = "return"
          /\ Len(Appended) = 2 /\ Appended[2] = NL
          /\ Appended[1] = Field(FieldPayload)
          /\ Len(FieldPayload) = n /\ AllDecimal(FieldPayload)
          /\ (Len(p) >= n => FieldPayload = SubSeq(p, 1, n))
          /\ (Len(p) < n =>
                /\ SubSeq(FieldPayload, n - Len(p) + 1, n) = p
                /\ \A k \in 1..(n - Len(p)) : FieldPayload[k] = 48)

\* C12 witness: add_field_data_ean_13('123') emitted '000000000123'.
C12_Witness ==
    /\ last.op = "add_field_data_ean_13" /\ last.st = "return"
    /\ last.args[1] = PyStr(<<49, 50, 51>>)
    /\ FieldPayload = <<48, 48, 48, 48, 48, 48, 48, 48, 48, 49, 50, 51>>

\* The characters Code 39 allows, and those Code 93 allows.
Allowed39 == (48..57) \cup (65..90) \cup {45, 46, 36, 47, 43, 37, 32}

Allowed93 == Allowed39 \cup {38, 44, 40, 41}

\* C13: without the extended mode, add_field_data_code_39 and
\* add_field_data_logmars (add_field_data_code_93 for its own set) raise a
\* ValueError and leave the stream as it was when a character of the
\* payload is outside the allowed set; a payload of allowed characters is
\* emitted as it is between '^FD' and '^FS'.
C13_CharacterSet ==
    LET a == last.args[1]
        allowed == IF last.op = "add_field_data_code_93" THEN Allowed93 ELSE Allowed39
    IN (/\ last.op \in {"add_field_data_code_39", "add_field_data_logmars", "add_field_data_code_93"}
        /\ (last.op # "add_field_data_logmars" => last.args[2] = Bool(FALSE))
        /\ a.t = "str") =>
          IF \E k \in 1..Len(a.s) : a.s[k] \notin allowed
          THEN last.st = "raise" /\ last.exc = "ValueError" /\ zpl = last.pre
          ELSE last.st = "return" /\ Appended = <<Field(a.s), NL>>

\* C13 witness: add_field_data_code_39('Aa') raised and appended nothing.
C13_Witness ==
    /\ last.op = "add_field_data_code_39" /\ last.st = "raise"
    /\ last.args = <<PyStr(<<65, 97>>), Bool(FALSE)>>
    /\ zpl = last.pre

\* C14: with the extended mode asked for, add_field_data_code_39 and
\* add_field_data_code_93 raise NotImplementedError for every payload and
\* leave the stream as it was.
C14_ExtendedNotImplemented ==
    (/\ last.op \in {"add_field_data_code_39", "add_field_data_code_93"}
     /\ last.args[2] = Bool(TRUE)) =>
        last.st = "raise" /\ last.exc = "NotImplementedError" /\ zpl = last.pre

\* C14 witness: the extended mode asked for with the payload 'AB', which
\* the normal set allows.
C14_Witness ==
    /\ last.op = "add_field_data_code_39" /\ last.st = "raise"
    /\ last.args = <<PyStr(<<65, 66>>), Bool(TRUE)>>
    /\ last.exc = "NotImplementedError" /\ zpl = last.pre

C15_Accepts ==
    /\ last.op = "add_field_data_msi" /\ last.st = "return"
    /\ last.args \in {<<PyStr(Digits(13)), PyStr(<<66>>)>>, <<PyStr(Digits(14)), PyStr(<<65>>)>>}

\* The segments of an additional_data argument: the members of a list, or
\* the one string.
Segments(ad) == IF ad.t = "list" THEN ad.l ELSE <<ad.s>>

\* An identifier of exactly 6 decimal digits.
GoodEci(e) == e.t = "str" /\ Len(e.s) = 6 /\ AllDecimal(e.s)

\* A serial of 1 to 26 alphanumeric characters.
GoodSerial(sn) == sn.t = "str" /\ Len(sn.s) >= 1 /\ Len(sn.s) <= 26 /\ isalnum(sn.s)

\* C16 (as claimed): add_field_data_tlc39 raises when the identifier is
\* not exactly 6 decimal digits, and when the additional data joined by
\* commas is longer than 139 characters, whatever the length of each
\* segment.
C16_Tlc39Rejects ==
    LET e == last.args[1]
        sn == last.args[2]
        ad == last.args[3]
    IN (last.op = "add_field_data_tlc39") =>
          /\ (~GoodEci(e) => last.st = "raise" /\ last.exc = "ValueError")
          /\ ((GoodEci(e) /\ sn # None /\ GoodSerial(sn) /\ ad # None
                 /\ Len(Join(COMMA, Segments(ad))) > 139) =>
                last.st = "raise" /\ last.exc = "ValueError")

\* C17 (as claimed): a segment of additional data of 26 characters or more
\* is rejected and an alphanumeric segment of 25 or fewer is accepted,
\* whether it is passed as a string or as a list of one segment.
C17_SegmentBound ==
    LET e == last.args[1]
        sn == last.args[2]
        ad == last.args[3]
        segs == Segments(ad)
    IN (/\ last.op = "add_field_data_tlc39"
        /\ GoodEci(e) /\ sn # None /\ GoodSerial(sn) /\ ad # None) =>
          /\ ((\E k \in 1..Len(segs) : Len(segs[k]) >= 26) => last.st = "raise")
          /\ ((Len(segs) = 1 /\ isalnum(segs[1]) /\ Len(segs[1]) <= 25) => last.st = "return")

\* C18 (as claimed): with a 6-digit identifier, add_field_data_tlc39 emits
\* the identifier alone when nothing else is passed, 'identifier,serial'
\* with a serial of 1 to 26 alphanumeric characters, and with a list of two
\* or more alphanumeric segments within the bounds of 25 and 139 it
\* returns and emits 'identifier,serial,seg1,seg2,...'.
C18_Composite ==
    LET e == last.args[1]
        sn == last.args[2]
        ad == last.args[3]
    IN (last.op = "add_field_data_tlc39" /\ GoodEci(e)) =>
          /\ ((sn = None /\ ad = None) =>
                last.st = "return" /\ Appended[1] = Field(e.s))
          /\ ((sn # None /\ GoodSerial(sn) /\ ad = None) =>
                last.st = "return" /\ Appended[1] = Field(e.s \o COMMA \o sn.s))
          /\ ((/\ sn # None /\ GoodSerial(sn)
               /\ ad.t = "list" /\ Len(ad.l) >= 2
               /\ \A k \in 1..Len(ad.l) : isalnum(ad.l[k]) /\ Len(ad.l[k]) <= 25
               /\ Len(Join(COMMA, ad.l)) <= 139) =>
                /\ last.st = "return"
                /\ Appended[1] = Field(Join(COMMA, <<e.s, sn.s>> \o ad.l)))

\* A bound of add_field_data_tlc39 is violated: the identifier is not 6
\* digits; the serial is empty, longer than 26 or not alphanumeric; a
\* segment of the additional data is longer than 25 or not alphanumeric,
\* or the segments joined are longer than 139.
Tlc39Violation ==
    LET e == last.args[1]
        sn == last.args[2]
        ad == last.args[3]
        segs == Segments(ad)
    IN \/ ~(Len(e.s) = 6 /\ isdigit(e.s))
       \/ sn # None /\ ~GoodSerial(sn)
       \/ /\ sn # None /\ ad # None
          /\ \/ \E k \in 1..Len(segs) : Len(segs[k]) >= 26 \/ ~isalnum(segs[k])
             \/ Len(Join(COMMA, segs)) > 139

C20_FieldData ==
    LET d == last.args[1]
        rn == last.args[2] = Bool(TRUE)
        segs == Segments(d)
        shown == [k \in 1..Len(segs) |-> IF rn THEN replace_newline(segs[k]) ELSE segs[k]]
    IN (last.op = "add_field_data") =>
          /\ last.st = "return"
          /\ Appended = <<Field(Join(<<94, 70, 83>>, shown)), NL>>

---------------------------------------------------------------------------
(* The 1D-barcode encoders, the barcode defaults, the box, the font and    *)
(* the QR levels (SpecBar)                                                 *)

\* The encoders that add parameters of their own after the shared encoder
TrailingOps == {"add_barcode_postal", "add_barcode_ansi_codabar", "add_barcode_logmars"}

\* The arguments such an encoder hands to the shared encoder
HelperArgs ==
    IF last.op = "add_barcode_logmars" THEN SubSeq(last.args, 1, 2) ELSE SubSeq(last.args, 1, 4)

\* The values the shared encoder emits for them: one for each argument
\* before the first None, and the fixed 'N' of add_barcode_ansi_codabar
\* after a supplied orientation.
HelperValues ==
    LeadingRun(HelperArgs)
      + (IF last.op = "add_barcode_ansi_codabar" /\ HelperArgs[1] # None THEN 1 ELSE 0)

\* C21 (as claimed): in add_barcode_postal, add_barcode_ansi_codabar and
\* add_barcode_logmars, when the shared encoder stopped at a None among
\* orientation, height, print_text, text_above, the trailing parameters of
\* the command are ignored: nothing is emitted after the values of the
\* shared encoder and no trailing parameter makes the call raise.
C21_HaltCarriesAcrossHelper ==
    (last.op \in TrailingOps /\ (\E k \in 1..Len(HelperArgs) : HelperArgs[k] = None)
        /\ last.field \notin {"orientation", "height", "print_text", "text_above"}) =>
       /\ last.st = "return"
       /\ Len(Values) = HelperValues

\* The encoders that hand a check digit to the shared encoder
CheckDigitOps == {"add_barcode_code_11", "add_barcode_code_39", "add_barcode_plessey"}

\* The string forms of the arguments before the first None
StrRun(args) == [k \in 1..LeadingRun(args) |-> str(args[k])]

\* C22 (as claimed): in add_barcode_code_11, add_barcode_code_39 and
\* add_barcode_plessey with orientation and a height in 1..32000 supplied,
\* a check_digit of None does not stop the command (height and the supplied
\* parameters after it follow orientation directly), a check_digit of 'Y'
\* or 'N' is emitted between orientation and height, and any other supplied
\* check_digit raises.
C22_OptionalCheckDigit ==
    LET o == last.args[1]
        cd == last.args[2]
        h == last.args[3]
        rest == StrRun(SubSeq(last.args, 4, 5))
    IN (last.op \in CheckDigitOps /\ o # None /\ h # None /\ Between(1, h, 32000)) =>
          IF cd = None
          THEN last.st = "return" /\ Values = <<str(o), str(h)>> \o rest
          ELSE IF cd \in {Y, N}
          THEN last.st = "return" /\ Values = <<str(o), str(cd), str(h)>> \o rest
          ELSE last.st = "raise" /\ last.exc = "ValueError" /\ last.field = "check_digit"

\* C22 with the check digits that are false in a condition set aside
C22_TruthyCheckDigit ==
    (last.op \in CheckDigitOps /\ (last.args[2] = None \/ Truthy(last.args[2]))) => C22_OptionalCheckDigit

\* The documented check-digit modes of MSI: 'A', 'B', 'C' and 'D'
MsiModes == {<<65>>, <<66>>, <<67>>, <<68>>}

\* C23 (as claimed): add_barcode_msi with an orientation accepts the
\* check_digit modes 'A', 'B', 'C' and 'D', each emitted unchanged after
\* orientation, and raises on every other supplied check_digit; so the
\* modes 'B', 'C' and 'D' that add_field_data_msi limits to 13 digits are
\* accepted.
C23_MsiCheckDigitModes ==
    LET cd == last.args[2]
    IN (last.op = "add_barcode_msi" /\ last.args[1] # None /\ cd # None) =>
          IF str(cd) \in MsiModes
          THEN last.st = "return" /\ Len(Values) >= 2 /\ Values[2] = str(cd)
          ELSE last.st = "raise" /\ last.exc = "ValueError" /\ last.field = "check_digit"

\* C24 (as claimed): add_barcode_industrial_2_of_5 with an orientation, a
\* height in 1..32000, print_text and text_above returns and emits '^BI'
\* and then orientation, height, print_text, text_above separated by
\* commas, the layout add_barcode_standard_2_of_5 emits after '^BJ'.
C24_IndustrialLayout ==
    LET a == last.args
    IN (last.op = "add_barcode_industrial_2_of_5" /\ (\A k \in 1..4 : a[k] # None)
          /\ Between(1, a[2], 32000)) =>
          /\ last.st = "return"
          /\ Appended[1] = <<94, 66, 73>>
          /\ ParamFrags = <<str(a[1]), COMMA, str(a[2]), COMMA, str(a[3]), COMMA, str(a[4])>>
          /\ ParamFrags = SubSeq(add_barcode_standard_2_of_5(<<>>, a[1], a[2], a[3], a[4]).zpl, 2, 8)

\* The barcode encoders of SpecBar
BarcodeOps ==
    {"add_barcode_code_11", "add_barcode_code_39", "add_barcode_plessey", "add_barcode_industrial_2_of_5",
     "add_barcode_standard_2_of_5", "add_barcode_postal", "add_barcode_ansi_codabar", "add_barcode_logmars",
     "add_barcode_msi", "add_barcode_qr"}

\* The opcode each of them documents in its docstring
Documented(op) ==
    CASE op = "add_barcode_code_11" -> <<94, 66, 49>>              \* ^B1
      [] op = "add_barcode_code_39" -> <<94, 66, 51>>              \* ^B3
      [] op = "add_barcode_plessey" -> <<94, 66, 80>>              \* ^BP
      [] op = "add_barcode_industrial_2_of_5" -> <<94, 66, 73>>    \* ^BI
      [] op = "add_barcode_standard_2_of_5" -> <<94, 66, 74>>      \* ^BJ
      [] op = "add_barcode_postal" -> <<94, 66, 90>>               \* ^BZ
      [] op = "add_barcode_ansi_codabar" -> <<94, 66, 75>>         \* ^BK
      [] op = "add_barcode_logmars" -> <<94, 66, 76>>              \* ^BL
      [] op = "add_barcode_msi" -> <<94, 66, 77>>                  \* ^BM
      [] op = "add_barcode_qr" -> <<94, 66, 81>>                   \* ^BQ
      [] OTHER -> <<>>

\* C25 (as claimed): the first fragment of every barcode encoder is its
\* own documented opcode and the opcode of no other symbology;
\* add_barcode_logmars emits '^BL' and not '^BJ'.
C25_OwnOpcode ==
    (last.op \in BarcodeOps) =>
       /\ IsPrefix(Documented(last.op), Appended[1])
       /\ \A other \in BarcodeOps \ {last.op} : ~IsPrefix(Documented(other), Appended[1])

\* C26 (as claimed): add_barcode_default with a module_width in 1..10, a
\* wide_narrow_ratio in 2.0..3.0 and a height in 1..200 emits '^BY' and
\* then module_width, wide_narrow_ratio, height, each once and separated
\* by single commas.
C26_DefaultThreeParameters ==
    LET a == last.args
    IN (last.op = "add_barcode_default" /\ (\A k \in 1..3 : a[k] # None)
          /\ Between(1, a[1], 10) /\ Between(2, a[2], 3) /\ Between(1, a[3], 200)) =>
          /\ last.st = "return"
          /\ Appended = <<<<94, 66, 89>>, str(a[1]), COMMA, str(round1(a[2])), COMMA, str(a[3]), NL>>

\* C27: add_graphic_box with width and height supplied rejects a width or
\* a height outside [border, 32000] ([1, 32000] when border is None) and a
\* border outside [1, 32000], so a width or height below the border and a
\* border of 0 raise; otherwise width, height and the supplied border are
\* accepted and emitted, a width or height equal to the border included.
\* The error names the first of width, height, border that is out of its
\* range; for a border of 0 the claim fixes only that the call raises.
C27_GraphicBoxRanges ==
    LET w == last.args[1]
        h == last.args[2]
        b == last.args[3]
        lo == IF b = None THEN 1 ELSE b.i
        okW == Between(lo, w, 32000)
        okH == Between(lo, h, 32000)
        okB == b = None \/ Between(1, b, 32000)
    IN (last.op = "add_graphic_box" /\ w # None /\ h # None) =>
          /\ (~(okW /\ okH /\ okB)) =>
                last.st = "raise" /\ last.exc = "ValueError" /\ last.field \in {"width", "height", "border"}
          /\ (okB /\ ~okW) => last.field = "width" /\ Values = <<>>
          /\ (okB /\ okW /\ ~okH) => last.field = "height" /\ Values = <<str(w)>>
          /\ (okW /\ okH /\ ~okB /\ b # PyInt(0)) => last.field = "border" /\ Values = <<str(w), str(h)>>
          /\ (okW /\ okH /\ okB) =>
                /\ last.field \notin {"width", "height", "border"}
                /\ IsPrefix(<<str(w), str(h)>> \o (IF b = None THEN <<>> ELSE <<str(b)>>), Values)

\* C27 witness: a box of width 5, height 5 and border 5 was accepted, and
\* so were the three values 32000
C27_Witness ==
    /\ last.op = "add_graphic_box"
    /\ last.st = "return"
    /\ last.args[1] = last.args[3]
    /\ last.args[2] = last.args[3]
    /\ last.args[3] \in {PyInt(5), PyInt(32000)}
    /\ Values = <<str(last.args[1]), str(last.args[2]), str(last.args[3])>>

\* C28 (as claimed): add_font with orientation, a character_height in
\* 10..32000 and a width supplied raises a validation error when the width
\* is outside 10..32000, 0 included, and emits a width inside the range as
\* the last parameter, after character_height.
C28_FontWidthRejected ==
    LET a == last.args
    IN (last.op = "add_font" /\ a[2] # None /\ a[3] # None /\ Between(10, a[3], 32000) /\ a[4] # None) =>
          IF Between(10, a[4], 32000)
          THEN last.st = "return" /\ Values = <<str(a[1]), str(a[2]), str(a[3]), str(a[4])>>
          ELSE last.st = "raise" /\ last.exc = "ValueError" /\ last.field = "width"

\* C29 (as claimed): the four QR error-correction constants are 'H', 'Q',
\* 'M' and 'L', pairwise distinct, and add_barcode_qr called with
\* QR_ERROR_CORRECTION_LOW after a model and a magnification emits 'L'.
C29_QrLowEmitsL ==
    (last.op = "add_barcode_qr" /\ last.args[1] # None /\ last.args[2] # None
        /\ last.args[3] = QR_ERROR_CORRECTION_LOW) =>
       /\ QR_ERROR_CORRECTION_ULTRA_HIGH = PyStr(<<72>>)
       /\ QR_ERROR_CORRECTION_HIGH = PyStr(<<81>>)
       /\ QR_ERROR_CORRECTION_STANDARD = PyStr(<<77>>)
       /\ QR_ERROR_CORRECTION_LOW = PyStr(<<76>>)
       /\ Cardinality({QR_ERROR_CORRECTION_ULTRA_HIGH, QR_ERROR_CORRECTION_HIGH,
                       QR_ERROR_CORRECTION_STANDARD, QR_ERROR_CORRECTION_LOW}) = 4
       /\ last.st = "return"
       /\ Len(Values) >= 3 /\ Values[3] = <<76>>

---------------------------------------------------------------------------
(* A command after a command that raised (Spec)                            *)

\* The command encoders of Spec: each appends its opcode before it
\* validates anything.
CommandEncoders == {"add_font", "add_label_home", "add_barcode_pdf417", "add_graphic_circle", "add_comment"}

\* A fragment that opens a command
IsOpcode(frag) == frag # <<>> /\ frag[1] = 94

\* C30: a command encoder that raised a validation error leaves the
\* stream ending with its opcode and the parameters it had emitted, with
\* no newline fragment for that command; the next command encoder appends
\* its opcode directly after them, and a text rendering taken then is the
\* text before the failed command, the fragments of the failed command
\* without any newline, and the end marker.
C30_RaiseLeavesNoNewline ==
    [][(last.op \in CommandEncoders /\ last.st = "raise") =>
          /\ last.exc = "ValueError"
          /\ Appended # <<>> /\ IsOpcode(Appended[1])
          /\ \A k \in 1..Len(Appended) : Appended[k] # NL
          /\ (calls' = calls + 1 /\ last'.op \in CommandEncoders) =>
                /\ IsPrefix(zpl, zpl') /\ Len(zpl') > Len(zpl)
                /\ IsOpcode(zpl'[Len(zpl) + 1])
                /\ zpl'[Len(zpl)] # NL
          /\ (last'.op = "zpl_text") =>
                /\ out'.text = Concat(last.pre) \o Concat(Appended) \o END
                /\ \A k \in 1..Len(Concat(Appended)) : Concat(Appended)[k] # 10]_vars

\* C30 witness: a command encoder was called on a stream that ends with
\* the opcode and a parameter of a command that raised, and appended its
\* own opcode directly after them.
C30_Witness ==
    /\ last.op \in CommandEncoders /\ calls = 2
    /\ Len(last.pre) > 3
    /\ last.pre[Len(last.pre)] \notin {NL, COMMA}
    /\ ~IsOpcode(last.pre[Len(last.pre)])
    /\ IsOpcode(Appended[1])

====
